---- MODULE Spec2Model ----
(***************************************************************************)
(* Verification model of the akshare-financial-analysis scripts.           *)
(*                                                                         *)
(* The repository is a set of independent scripts; each section below      *)
(* models one of them as its own state machine over its own variables,    *)
(* with its own specification (SpecExtract, SpecPipeline, ...).  A         *)
(* specification leaves the variables of the other sections at their idle  *)
(* values.                                                                 *)
(***************************************************************************)
EXTENDS Integers, Sequences, FiniteSets, TLC

VARIABLES
    \* ---- batch_extract_employee_count_smart (智能_从年报提取员工数量.py)
    pdf_dir,        \* the *.pdf files of the directory
    pdf_content,    \* what the smart algorithm meets in each file
    result_dict,    \* the batch call's {filename: count or None}
    single_result,  \* the single-file call's count or None
    exPc,           \* "idle", "returned", "raised", "single"
    \* ---- the A-share automation pipeline (A股财务分析自动化.py)
    plPc,           \* position of the script run
    download_report,\* the 下载年报PDF checkbox
    plYears,        \* years the download loop has still to try
    company_dir,    \* the PDFs in the company directory
    company_content,\* what the extractor meets in each of them
    download_results,\* year -> "success" / "failed" / "raised"
    step2,          \* TRUE once the working directory is created
    step4,          \* "not_reached", "raised", "extracted"
    csv_path,       \* "undefined" or "defined"
    step5,          \* "not_reached", "done"
    \* ---- download_from_cninfo (08_下载年报PDF.py)
    dlPc,           \* "idle", "trying", "returned"
    announcement,   \* the first announcement of the search, or NoAnnouncement
    download_urls,  \* the candidate URLs not yet tried
    dlTried,        \* the URLs tried so far, each with what it met
    dlFile,         \* the state of save_dir/{symbol}_{year}年年度报告.pdf
    dlFileBefore,   \* its state before the call
    dlResult,       \* "unset", "None" or "filepath"
    \* ---- batch_download_reports (批量下载年报.py)
    bdPc,           \* "idle", "loop", "returned", "raised"
    start_year,     \* the arguments
    end_year,
    bdYear,         \* the loop variable
    bdMet,          \* year -> what download_annual_report did for it
    bdFileExists,   \* the years whose file exists in save_dir
    results,        \* {year: file path or None}
    \* ---- extract_year_data (07_财务分析.py)
    ydPc,           \* "idle", "returned"
    df,             \* the statement table: a sequence of rows, or NoDf
    ydYear,         \* the year asked for
    ydRow,          \* the position in df of the row returned, 0 for None
    \* ---- calculate_growth_metrics (07_财务分析.py)
    gmPc,           \* "idle", "returned"
    gmProfit,       \* data['profit']: year -> its 12-31 row, or NoStatement
    gmStart,        \* start_year
    gmEnd,          \* end_year
    result_df,      \* the table returned, or NoTable
    \* ---- save_to_excel (07_财务分析.py)
    sePc,           \* "off", "run"
    seFiles,        \* the .xlsx files on disk: path -> (sheet name -> sheet)
    seDirs,         \* the directories that exist
    seClock,        \* datetime.now(), in seconds
    seCalls,        \* the number of calls made
    seCall,         \* the arguments and the outcome of the last call
    seBefore,       \* seFiles as the last call found it
    seResult,       \* what the last call returned: a path or NoPath
    \* ---- convert_hk_long_to_wide (hk_financial_adapter.py)
    cvPc,           \* "off", "idle", "returned"
    df_long,        \* the long table: its columns and its rows, or NoFrame
    df_wide,        \* the wide table returned, or NoWide
    chinese_name_mapping,   \* the dictionary returned with it
    \* ---- search_hkex_annual_reports, parse_html_for_annual_reports
    \* ---- (09_下载港股年报PDF.py)
    hxPc,           \* "off", "run"
    hxPage,         \* the links of the result page, in page order
    hxSearched,     \* "no", "ok", "failed": search_hkex_annual_reports
    hxSearch,       \* the list it returned
    hxParsed,       \* "no", "ok", "failed": parse_html_for_annual_reports
    hxParse,         \* the list it returned
    \* ---- search_announcements_cninfo (08_下载年报PDF.py)
    saPc,           \* "off", "loop", "returned"
    saIdx,          \* strategy_idx of the next request
    saQueried,      \* the strategies queried so far, in the order of the requests
    saResponses,    \* what the server answered to each of them
    saResult,        \* the list returned
    \* ---- main (批量下载年报.py)
    mnPc,           \* "off", "args", "call", "counted", "exited"
    mnArgs,         \* symbol, start_year, end_year as given or typed in
    mnResults,      \* what batch_download_reports returned: year -> path or None
    mnExc,          \* the exception raised in the try block, "none" if none
    mnStatus,        \* the exit status of the process, None while it runs
    \* ---- get_value_from_row (07_财务分析.py)
    gvPc,           \* "off", "idle", "returned"
    gvRow,          \* row: a statement row, or None (not present)
    gvColumn,       \* column_name
    gvResult,        \* what the call returned
    \* ---- the indicator tables (07_财务分析.py)
    mtPc,           \* "off", "idle", "returned"
    mtCall,         \* which table function is called
    mtStart,        \* start_year; end_year is GmLastYear
    mtFetched,      \* FALSE: a statement the function needs is None
    mtData,         \* year -> the 12-31 rows of the statements
    mtTable,         \* the returned table: None, or year -> column
    \* ---- the smart algorithm (智能_从年报提取员工数量.py)
    smPc,           \* "off", the strategy to run, "merge", "return", "returned"
    smResults,      \* strategies_results: the candidates, in order
    smRejected,     \* numbers a strategy read and made no candidate of
    smFinal,        \* final_result of _validate_and_merge_results
    smCount,         \* what extract_employee_count_from_pdf_smart returned
    \* ---- the row of a year (07_财务分析.py, hk_financial_adapter.py, 财务报表下载工具.py)
    ryPc,           \* "off", the function to call next, "returned"
    ryTable,        \* df: the statement table
    ryYear,         \* year
    ryRow,           \* the row each function took: its index, 0 for None
    \* ---- calculate_per_capita_metrics (07_财务分析.py)
    pcPc,           \* "off", "idle", "unfetched", "returned"
    pcCsvGiven,     \* employee_csv_path is given
    pcCsv,          \* the file at employee_csv_path
    pcApi,          \* what get_employee_count returns
    pcData,         \* year -> the 12-31 rows of the statements
    pcTable         \* the returned table: None, or year -> column

exVars == <<pdf_dir, pdf_content, result_dict, single_result, exPc>>
plVars == <<plPc, download_report, plYears, company_dir, company_content,
            download_results, step2, step4, csv_path, step5>>

dlVars == <<dlPc, announcement, download_urls, dlTried, dlFile, dlFileBefore,
            dlResult>>

bdVars == <<bdPc, start_year, end_year, bdYear, bdMet, bdFileExists, results>>

ydVars == <<ydPc, df, ydYear, ydRow>>

gmVars == <<gmPc, gmProfit, gmStart, gmEnd, result_df>>

seVars == <<sePc, seFiles, seDirs, seClock, seCalls, seCall, seBefore,
            seResult>>

cvVars == <<cvPc, df_long, df_wide, chinese_name_mapping>>

hxVars == <<hxPc, hxPage, hxSearched, hxSearch, hxParsed, hxParse>>

saVars == <<saPc, saIdx, saQueried, saResponses, saResult>>

mnVars == <<mnPc, mnArgs, mnResults, mnExc, mnStatus>>

gvVars == <<gvPc, gvRow, gvColumn, gvResult>>

mtVars == <<mtPc, mtCall, mtStart, mtFetched, mtData, mtTable>>

smVars == <<smPc, smResults, smRejected, smFinal, smCount>>

ryVars == <<ryPc, ryTable, ryYear, ryRow>>

pcVars == <<pcPc, pcCsvGiven, pcCsv, pcApi, pcData, pcTable>>

vars == <<exVars, plVars, dlVars, bdVars, ydVars, gmVars, seVars, cvVars,
          hxVars, saVars, mnVars, gvVars, mtVars, smVars, ryVars, pcVars>>

notEx == <<plVars, dlVars, bdVars, ydVars, gmVars, seVars, cvVars, hxVars,
           saVars, mnVars, gvVars, mtVars, smVars, ryVars, pcVars>>
notPl == <<exVars, dlVars, bdVars, ydVars, gmVars, seVars, cvVars, hxVars,
           saVars, mnVars, gvVars, mtVars, smVars, ryVars, pcVars>>
notDl == <<exVars, plVars, bdVars, ydVars, gmVars, seVars, cvVars, hxVars,
           saVars, mnVars, gvVars, mtVars, smVars, ryVars, pcVars>>
notBd == <<exVars, plVars, dlVars, ydVars, gmVars, seVars, cvVars, hxVars,
           saVars, mnVars, gvVars, mtVars, smVars, ryVars, pcVars>>
notYd == <<exVars, plVars, dlVars, bdVars, gmVars, seVars, cvVars, hxVars,
           saVars, mnVars, gvVars, mtVars, smVars, ryVars, pcVars>>
notGm == <<exVars, plVars, dlVars, bdVars, ydVars, seVars, cvVars, hxVars,
           saVars, mnVars, gvVars, mtVars, smVars, ryVars, pcVars>>
notSe == <<exVars, plVars, dlVars, bdVars, ydVars, gmVars, cvVars, hxVars,
           saVars, mnVars, gvVars, mtVars, smVars, ryVars, pcVars>>
notCv == <<exVars, plVars, dlVars, bdVars, ydVars, gmVars, seVars, hxVars,
           saVars, mnVars, gvVars, mtVars, smVars, ryVars, pcVars>>
notHx == <<exVars, plVars, dlVars, bdVars, ydVars, gmVars, seVars, cvVars,
           saVars, mnVars, gvVars, mtVars, smVars, ryVars, pcVars>>
notSa == <<exVars, plVars, dlVars, bdVars, ydVars, gmVars, seVars, cvVars,
           hxVars, mnVars, gvVars, mtVars, smVars, ryVars, pcVars>>
notMn == <<exVars, plVars, dlVars, bdVars, ydVars, gmVars, seVars, cvVars,
           hxVars, saVars, gvVars, mtVars, smVars, ryVars, pcVars>>
notGv == <<exVars, plVars, dlVars, bdVars, ydVars, gmVars, seVars, cvVars,
           hxVars, saVars, mnVars, mtVars, smVars, ryVars, pcVars>>
notMt == <<exVars, plVars, dlVars, bdVars, ydVars, gmVars, seVars, cvVars,
           hxVars, saVars, mnVars, gvVars, smVars, ryVars, pcVars>>
notSm == <<exVars, plVars, dlVars, bdVars, ydVars, gmVars, seVars, cvVars,
           hxVars, saVars, mnVars, gvVars, mtVars, ryVars, pcVars>>
notRy == <<exVars, plVars, dlVars, bdVars, ydVars, gmVars, seVars, cvVars,
           hxVars, saVars, mnVars, gvVars, mtVars, smVars, pcVars>>
notPc == <<exVars, plVars, dlVars, bdVars, ydVars, gmVars, seVars, cvVars,
           hxVars, saVars, mnVars, gvVars, mtVars, smVars, ryVars>>

\* Python's None where the other values are integers.
None == -1

(***************************************************************************)
(* Section 1.  batch_extract_employee_count_smart                          *)
(***************************************************************************)

\* Number of PDF files a directory may hold.
MaxPdfs == 3

PdfNames == 1..MaxPdfs

\* Head counts a report may yield (a small company, a large one).
Counts == {600, 12000}

\* What processing one PDF can meet: the file vanished after the glob
\* ("gone"), pdfplumber or a strategy raises ("raise"), the strategies find
\* no candidate ("none"), or the merged result carries a count.
PdfOutcomes ==
    [kind : {"gone", "raise", "none"}, count : {None}]
        \cup [kind : {"count"}, count : Counts]

\* _extract_with_smart_algorithm: the merged EmployeeData (its count), None
\* when no strategy finds a candidate, or an exception.
SmartAlgorithm(content) ==
    CASE content.kind = "raise" -> [raised |-> TRUE, data |-> None]
      [] content.kind = "none"  -> [raised |-> FALSE, data |-> None]
      [] OTHER                  -> [raised |-> FALSE, data |-> content.count]

\* SmartEmployeeExtractor.extract_from_pdf(pdf_path, use_smart=True): an
\* ExtractionResult; every Exception of the algorithm is caught and leaves
\* success = False.
ExtractFromPdf(content) ==
    IF content.kind = "gone"
    THEN [raised |-> FALSE, success |-> FALSE, count |-> None]
    ELSE LET r == SmartAlgorithm(content) IN
         IF r.raised
         THEN [raised |-> FALSE, success |-> FALSE, count |-> None]
         ELSE IF r.data # None
              THEN [raised |-> FALSE, success |-> TRUE, count |-> r.data]
              ELSE [raised |-> FALSE, success |-> FALSE, count |-> None]

\* The functions 测试_从年报提取员工数量.py defines: the names a
\* "from 测试_从年报提取员工数量 import ..." can bind.
LegacyModuleNames ==
    {"extract_employee_count_from_pdf", "is_reasonable_employee_count",
     "analyze_table_for_employee_count", "extract_numbers_from_row",
     "extract_employee_count_from_text", "print_table_preview",
     "is_annual_report_pdf", "extract_year_from_filename",
     "extract_stock_code_from_filename", "save_to_csv", "process_directory",
     "print_summary", "verify_specific_year", "main"}

\* from <module> import <name>: ImportError when the module has no such name.
ImportFrom(moduleNames, name) == name \in moduleNames

\* batch_extract_employee_count_smart(pdf_dir, stock_code=..., use_smart=True).
\* Its first statement imports batch_extract_employee_count_from_pdfs from
\* the legacy module, whatever use_smart is; then one extract_from_pdf per
\* file of the glob, success mapped to the count and failure to None.
BatchExtractSmart(dir, content) ==
    IF ~ImportFrom(LegacyModuleNames, "batch_extract_employee_count_from_pdfs")
    THEN [raised |-> TRUE, dict |-> << >>]
    ELSE IF \E f \in dir : ExtractFromPdf(content[f]).raised
         THEN [raised |-> TRUE, dict |-> << >>]
         ELSE [raised |-> FALSE,
               dict |-> [f \in dir |->
                           LET result == ExtractFromPdf(content[f]) IN
                           IF result.success THEN result.count ELSE None]]

\* extract_employee_count_from_pdf_smart(pdf_path, use_smart=True): the count
\* of a successful extraction, None otherwise.
ExtractCountSmart(content) ==
    LET result == ExtractFromPdf(content) IN
    IF result.success THEN result.count ELSE None

ExInit ==
    /\ pdf_dir \in SUBSET PdfNames
    /\ pdf_content \in [PdfNames -> PdfOutcomes]
    /\ result_dict = << >>
    /\ single_result = None
    /\ exPc = "idle"

ExIdle ==
    /\ pdf_dir = {}
    /\ pdf_content = [f \in PdfNames |-> [kind |-> "none", count |-> None]]
    /\ result_dict = << >>
    /\ single_result = None
    /\ exPc = "idle"

\* A call of batch_extract_employee_count_smart on the directory.
BatchExtract ==
    /\ exPc = "idle"
    /\ LET r == BatchExtractSmart(pdf_dir, pdf_content) IN
         /\ exPc' = IF r.raised THEN "raised" ELSE "returned"
         /\ result_dict' = r.dict
    /\ UNCHANGED <<pdf_dir, pdf_content, single_result>>
    /\ UNCHANGED notEx

\* A call of extract_employee_count_from_pdf_smart on one file.
ExtractOne ==
    /\ exPc = "idle"
    /\ \E f \in pdf_dir :
         single_result' = ExtractCountSmart(pdf_content[f])
    /\ exPc' = "single"
    /\ UNCHANGED <<pdf_dir, pdf_content, result_dict>>
    /\ UNCHANGED notEx

ExNext == BatchExtract \/ ExtractOne


(***************************************************************************)
(* Section 2.  The A-share automation pipeline (A股财务分析自动化.py)       *)
(***************************************************************************)

\* Number of years between start_year and end_year, both included.
MaxPlYears == 2

PlYears == 1..MaxPlYears

PlIdle ==
    /\ plPc = "off"
    /\ download_report = FALSE
    /\ plYears = {}
    /\ company_dir = {}
    /\ company_content = [y \in PlYears |-> [kind |-> "none", count |-> None]]
    /\ download_results = << >>
    /\ step2 = FALSE
    /\ step4 = "not_reached"
    /\ csv_path = "undefined"
    /\ step5 = "not_reached"

\* The run starts when the button is pressed with a symbol and a work
\* directory: the checkbox is set either way, the company directory may
\* already hold PDFs.
PlInit ==
    /\ plPc = "step1"
    /\ download_report \in BOOLEAN
    /\ plYears = {}
    /\ company_dir \in SUBSET PlYears
    /\ company_content \in [PlYears -> PdfOutcomes]
    /\ download_results = << >>
    /\ step2 = FALSE
    /\ step4 = "not_reached"
    /\ csv_path = "undefined"
    /\ step5 = "not_reached"

\* Step 1: get_symbol_name; no name stops the run (st.stop()).
PlStep1 ==
    /\ plPc = "step1"
    /\ \E found \in BOOLEAN :
         plPc' = IF found THEN "step2" ELSE "stopped"
    /\ UNCHANGED <<download_report, plYears, company_dir, company_content,
                   download_results, step2, step4, csv_path, step5>>
    /\ UNCHANGED notPl

\* Step 2: os.makedirs(company_dir, exist_ok=True); an OSError goes to the
\* outer handler (执行失败).
PlStep2 ==
    /\ plPc = "step2"
    /\ \E ok \in BOOLEAN :
         IF ok THEN /\ step2' = TRUE
                    /\ plPc' = "step3"
               ELSE /\ step2' = FALSE
                    /\ plPc' = "failed"
    /\ UNCHANGED <<download_report, plYears, company_dir, company_content,
                   download_results, step4, csv_path, step5>>
    /\ UNCHANGED notPl

\* Step 3 with the box unchecked: skipped.
PlSkipDownload ==
    /\ plPc = "step3"
    /\ ~download_report
    /\ plPc' = "step4"
    /\ UNCHANGED <<download_report, plYears, company_dir, company_content,
                   download_results, step2, step4, csv_path, step5>>
    /\ UNCHANGED notPl

\* Step 3 with the box checked: load_module("pdf_downloader", ...); a load
\* failure stops the run (st.stop()); otherwise years = range(start, end+1).
PlLoadDownloader ==
    /\ plPc = "step3"
    /\ download_report
    /\ \E loaded \in BOOLEAN :
         IF loaded THEN /\ plPc' = "download"
                        /\ plYears' = PlYears
                   ELSE /\ plPc' = "stopped"
                        /\ plYears' = plYears
    /\ UNCHANGED <<download_report, company_dir, company_content,
                   download_results, step2, step4, csv_path, step5>>
    /\ UNCHANGED notPl

\* One iteration of the download loop for the next year: a path of an
\* existing file is a success, None a failure, an exception is caught and
\* recorded as a failure.
PlDownloadYear ==
    /\ plPc = "download"
    /\ plYears # {}
    /\ LET year == CHOOSE y \in plYears : \A z \in plYears : y <= z IN
       \E outcome \in {"success", "failed", "raised"} :
         /\ download_results' =
              [y \in (DOMAIN download_results) \cup {year} |->
                 IF y = year THEN outcome ELSE download_results[y]]
         /\ company_dir' = IF outcome = "success"
                           THEN company_dir \cup {year} ELSE company_dir
         /\ plYears' = plYears \ {year}
    /\ UNCHANGED <<plPc, download_report, company_content, step2, step4,
                   csv_path, step5>>
    /\ UNCHANGED notPl

\* The loop is over: the summary is shown and the run goes on to step 4.
PlDownloadDone ==
    /\ plPc = "download"
    /\ plYears = {}
    /\ plPc' = "step4"
    /\ UNCHANGED <<download_report, plYears, company_dir, company_content,
                   download_results, step2, step4, csv_path, step5>>
    /\ UNCHANGED notPl

\* Step 4: load the extractor module (a failure stops the run), then call
\* batch_extract_employee_count_smart(company_dir, ...) inside try/except.
\* When the call returns, the counts are written to csv_path; when it
\* raises, the handler reports the failure and csv_path is never assigned.
PlStep4 ==
    /\ plPc = "step4"
    /\ \E loaded \in BOOLEAN :
         IF ~loaded
         THEN /\ plPc' = "stopped"
              /\ UNCHANGED <<step4, csv_path>>
         ELSE LET batch_results ==
                      BatchExtractSmart(company_dir, company_content) IN
              /\ plPc' = "step5"
              /\ step4' = IF batch_results.raised THEN "raised" ELSE "extracted"
              /\ csv_path' = IF batch_results.raised THEN csv_path ELSE "defined"
    /\ UNCHANGED <<download_report, plYears, company_dir, company_content,
                   download_results, step2, step5>>
    /\ UNCHANGED notPl

\* Step 5: load the analysis module (a failure stops the run), then
\* "employee_csv_path = (csv_path if csv_path and ... else None)": a name
\* never assigned raises NameError, which the outer handler reports as
\* 执行失败; otherwise the sheets are generated.
PlStep5 ==
    /\ plPc = "step5"
    /\ \E loaded \in BOOLEAN :
         IF ~loaded
         THEN /\ plPc' = "stopped"
              /\ step5' = step5
         ELSE IF csv_path = "undefined"
              THEN /\ plPc' = "failed"
                   /\ step5' = step5
              ELSE /\ plPc' = "done"
                   /\ step5' = "done"
    /\ UNCHANGED <<download_report, plYears, company_dir, company_content,
                   download_results, step2, step4, csv_path>>
    /\ UNCHANGED notPl

PlNext ==
    \/ PlStep1 \/ PlStep2 \/ PlSkipDownload \/ PlLoadDownloader
    \/ PlDownloadYear \/ PlDownloadDone \/ PlStep4 \/ PlStep5

PlEnded == plPc \in {"done", "stopped", "failed"}

(***************************************************************************)
(* Section 3.  download_from_cninfo (08_下载年报PDF.py)                     *)
(***************************************************************************)

\* The size a saved file must exceed, in bytes.
MinPdfBytes == 50000

NoAnnouncement == [found |-> FALSE, id |-> FALSE, adjunctUrl |-> FALSE,
                   announcementTime |-> FALSE]

\* announcements[0] as far as the function reads it: whether it carries an
\* announcement id, an adjunctUrl and an announcementTime.
Announcements ==
    {NoAnnouncement} \cup
    [found : {TRUE}, id : BOOLEAN, adjunctUrl : BOOLEAN,
     announcementTime : BOOLEAN]

\* Sizes a download can leave on disk, in bytes.
FileSizes == {0, 1200, 50000, 50001, 2000000}

\* What one candidate URL can meet: requests.get raises; a status other than
\* 200; a 200 response that is neither a PDF by Content-Type nor longer than
\* 50000 by Content-Length; or a response that is saved, the write either
\* completing with some size or raising after part of the body was written.
UrlOutcomes ==
    [kind : {"get_raises", "not_200", "not_pdf"}, size : {0}]
        \cup [kind : {"saved", "write_raises"}, size : FileSizes]

\* A variant of the URL list with the announcement-ID URLs ahead of the
\* adjunctUrl URL.
DownloadUrlsIdFirst(ann) ==
    <<"http_id", "https_id">>
        \o (IF ann.adjunctUrl THEN <<"adjunct">> ELSE << >>)
        \o (IF ann.announcementTime THEN <<"finalpage">> ELSE << >>)

\* download_urls as the function builds it: the adjunctUrl URL when the
\* announcement has one, the http and https announcement-ID URLs, the static
\* finalpage URL when the announcement has a time.
DownloadUrls(ann) ==
    (IF ann.adjunctUrl THEN <<"adjunct">> ELSE << >>)
        \o <<"http_id", "https_id">>
        \o (IF ann.announcementTime THEN <<"finalpage">> ELSE << >>)

\* The file at filepath: absent, or present with a size; "whose" tells a
\* report the user saved by hand from one this call wrote.
AbsentFile == [present |-> FALSE, size |-> 0, by |-> "nobody"]

DlIdle ==
    /\ dlPc = "off"
    /\ announcement = NoAnnouncement
    /\ download_urls = << >>
    /\ dlTried = << >>
    /\ dlFile = AbsentFile
    /\ dlFileBefore = AbsentFile
    /\ dlResult = "unset"

\* Before the call the file is absent or is a report saved by hand under
\* the name the UI suggests.
DlInit ==
    /\ dlPc = "idle"
    /\ announcement \in Announcements
    /\ download_urls = << >>
    /\ dlTried = << >>
    /\ dlFile \in {AbsentFile,
                   [present |-> TRUE, size |-> 2000000, by |-> "user"]}
    /\ dlFileBefore = dlFile
    /\ dlResult = "unset"

\* The call up to the loop: os.makedirs, the search, the first announcement
\* and its id, the URL list.  No announcement, no id, or an exception
\* (caught by the outer handler) return None.
DlStart ==
    /\ dlPc = "idle"
    /\ \E raises \in BOOLEAN :
         IF raises \/ ~announcement.found \/ ~announcement.id
         THEN /\ dlPc' = "returned"
              /\ dlResult' = "None"
              /\ download_urls' = << >>
         ELSE /\ dlPc' = "trying"
              /\ dlResult' = dlResult
              /\ download_urls' = DownloadUrls(announcement)
    /\ UNCHANGED <<announcement, dlTried, dlFile, dlFileBefore>>
    /\ UNCHANGED notDl

\* One iteration of "for idx, url in enumerate(download_urls, 1)".
DlTryUrl ==
    /\ dlPc = "trying"
    /\ download_urls # << >>
    /\ \E o \in UrlOutcomes :
         /\ dlTried' = Append(dlTried, [url |-> Head(download_urls), met |-> o])
         /\ download_urls' = Tail(download_urls)
         /\ CASE o.kind \in {"get_raises", "not_200", "not_pdf"} ->
                   \* nothing is written
                   UNCHANGED <<dlFile, dlPc, dlResult>>
              [] o.kind = "write_raises" ->
                   \* open(filepath, 'wb') truncated the file and part of
                   \* the body was written; except: continue
                   /\ dlFile' = [present |-> TRUE, size |-> o.size,
                                 by |-> "call"]
                   /\ UNCHANGED <<dlPc, dlResult>>
              [] o.kind = "saved" /\ o.size > MinPdfBytes ->
                   /\ dlFile' = [present |-> TRUE, size |-> o.size,
                                 by |-> "call"]
                   /\ dlPc' = "returned"
                   /\ dlResult' = "filepath"
              [] o.kind = "saved" /\ o.size <= MinPdfBytes ->
                   \* os.remove(filepath)
                   /\ dlFile' = AbsentFile
                   /\ UNCHANGED <<dlPc, dlResult>>
    /\ UNCHANGED <<announcement, dlFileBefore>>
    /\ UNCHANGED notDl

\* The loop ran out of URLs: return None.
DlGiveUp ==
    /\ dlPc = "trying"
    /\ download_urls = << >>
    /\ dlPc' = "returned"
    /\ dlResult' = "None"
    /\ UNCHANGED <<announcement, download_urls, dlTried, dlFile, dlFileBefore>>
    /\ UNCHANGED notDl

DlNext == DlStart \/ DlTryUrl \/ DlGiveUp

(***************************************************************************)
(* Section 4.  batch_download_reports (批量下载年报.py)                     *)
(***************************************************************************)

\* The first year of the ranges tried.
BdFirstYear == 2020

\* Number of years the ranges are drawn from.
MaxBdYears == 3

BdYears == BdFirstYear..(BdFirstYear + MaxBdYears - 1)

\* A file path stands for itself; the path of a year is the year.
BdPath(year) == year

\* What download_from_cninfo can do for one year: return the path of the
\* file it saved, return None, return a path whose file is gone again by
\* the time the caller looks, or let an exception escape.
BdOutcomes == {"filepath", "none", "stale_path", "raises"}

\* download_annual_report(symbol, year, save_dir, source): 'auto' and
\* 'cninfo' go to download_from_cninfo, 'sse' and 'szse' to stubs that
\* return None, any other source returns None.
DownloadAnnualReport(source, met) ==
    IF source \in {"auto", "cninfo"}
    THEN met
    ELSE "none"

\* A variant of the loop body without its "except Exception": the exception
\* of a year ends the call.
BdRecordNoExcept(year, met, exists) ==
    CASE met = "raises" -> [raised |-> TRUE, value |-> None]
      [] met \in {"filepath", "stale_path"} /\ exists ->
            [raised |-> FALSE, value |-> BdPath(year)]
      [] OTHER -> [raised |-> FALSE, value |-> None]

\* The body of "for year in range(start_year, end_year + 1)": results[year]
\* is the path when one is returned and os.path.exists(file_path), None
\* otherwise, also when the download raised.
BdRecord(year, met, exists) ==
    CASE met = "raises" -> [raised |-> FALSE, value |-> None]
      [] met \in {"filepath", "stale_path"} /\ exists ->
            [raised |-> FALSE, value |-> BdPath(year)]
      [] OTHER -> [raised |-> FALSE, value |-> None]

BdIdle ==
    /\ bdPc = "off"
    /\ start_year = BdFirstYear
    /\ end_year = BdFirstYear
    /\ bdYear = BdFirstYear
    /\ bdMet = << >>
    /\ bdFileExists = {}
    /\ results = << >>

BdInit ==
    /\ bdPc = "idle"
    /\ start_year \in BdYears
    /\ end_year \in BdYears
    /\ bdYear = start_year
    /\ bdMet = << >>
    /\ bdFileExists = {}
    /\ results = << >>

\* results = {}; os.makedirs(save_dir, exist_ok=True), which may raise.
BdStart ==
    /\ bdPc = "idle"
    /\ \E ok \in BOOLEAN :
         bdPc' = IF ok THEN "loop" ELSE "raised"
    /\ bdYear' = start_year
    /\ UNCHANGED <<start_year, end_year, bdMet, bdFileExists, results>>
    /\ UNCHANGED notBd

\* One iteration of the loop over the years.
BdDownloadYear ==
    /\ bdPc = "loop"
    /\ bdYear <= end_year
    /\ \E o \in BdOutcomes :
         LET met == DownloadAnnualReport("cninfo", o)
             exists == IF met = "filepath"
                       THEN bdFileExists \cup {bdYear}
                       ELSE bdFileExists
             r == BdRecord(bdYear, met, bdYear \in exists)
         IN  /\ bdMet' = [y \in (DOMAIN bdMet) \cup {bdYear} |->
                            IF y = bdYear THEN met ELSE bdMet[y]]
             /\ bdFileExists' = exists
             /\ IF r.raised
                THEN /\ bdPc' = "raised"
                     /\ UNCHANGED <<results, bdYear>>
                ELSE /\ results' = [y \in (DOMAIN results) \cup {bdYear} |->
                                      IF y = bdYear THEN r.value ELSE results[y]]
                     /\ bdYear' = bdYear + 1
                     /\ bdPc' = "loop"
    /\ UNCHANGED <<start_year, end_year>>
    /\ UNCHANGED notBd

\* The loop is over: the statistics are printed and results returned.
BdReturn ==
    /\ bdPc = "loop"
    /\ bdYear > end_year
    /\ bdPc' = "returned"
    /\ UNCHANGED <<start_year, end_year, bdYear, bdMet, bdFileExists, results>>
    /\ UNCHANGED notBd

BdNext == BdStart \/ BdDownloadYear \/ BdReturn

(***************************************************************************)
(* Section 5.  extract_year_data (07_财务分析.py)                           *)
(***************************************************************************)

\* Number of rows of a statement table.
MaxRows == 3

\* The years of the report dates and of the queries; 2012 is among them
\* because its digits end in "12".
DfYears == {2012, 2013}

\* Period ends: the quarters, and a day next to the year end.
PeriodEnds == {<<3, 31>>, <<6, 30>>, <<12, 30>>, <<12, 31>>}

\* A report date: year, month, day, or a missing value (NaT).
NaT == [y |-> 0, m |-> 0, d |-> 0]

ReportDates ==
    {NaT} \cup {[y |-> yy, m |-> pe[1], d |-> pe[2]] :
                   yy \in DfYears, pe \in PeriodEnds}

\* str() of a digit.
Digit(n) ==
    CASE n = 0 -> "0" [] n = 1 -> "1" [] n = 2 -> "2" [] n = 3 -> "3"
      [] n = 4 -> "4" [] n = 5 -> "5" [] n = 6 -> "6" [] n = 7 -> "7"
      [] n = 8 -> "8" [] n = 9 -> "9"

\* str(year) for a four-digit year, as a sequence of characters.
YearStr(year) ==
    <<Digit(year \div 1000), Digit((year \div 100) % 10),
      Digit((year \div 10) % 10), Digit(year % 10)>>

TwoDigits(n) == <<Digit(n \div 10), Digit(n % 10)>>

\* df[date_col].astype(str) of one value: "YYYY-MM-DD 00:00:00", "NaT" for a
\* missing one.
DateStr(date) ==
    IF date = NaT
    THEN <<"N", "a", "T">>
    ELSE YearStr(date.y) \o <<"-">> \o TwoDigits(date.m) \o <<"-">>
            \o TwoDigits(date.d)
            \o <<" ", "0", "0", ":", "0", "0", ":", "0", "0">>

\* Series.str.contains(sub) for a pattern without regex metacharacters.
StrContains(str, sub) ==
    \E i \in 1..(Len(str) - Len(sub) + 1) :
        SubSeq(str, i, i + Len(sub) - 1) = sub

\* The table is None, or has rows (possibly none) and has or lacks a column
\* whose name contains REPORT_DATE or 报告期.
NoDf == [none |-> TRUE, date_col |-> FALSE, rows |-> << >>]

RowSeqs(n) == UNION {[1..k -> ReportDates] : k \in 0..n}

Dfs ==
    {NoDf} \cup [none : {FALSE}, date_col : BOOLEAN, rows : RowSeqs(MaxRows)]

\* The rows the filter keeps: the date string contains str(year) and
\* contains '12-31'.
YearEndRows(table, year) ==
    {i \in DOMAIN table.rows :
        /\ StrContains(DateStr(table.rows[i]), YearStr(year))
        /\ StrContains(DateStr(table.rows[i]), <<"1", "2", "-", "3", "1">>)}

\* abs(x).
Abs(x) == IF x < 0 THEN -x ELSE x

MaxOf(S) == CHOOSE x \in S : \A y \in S : y <= x
MinOf(S) == CHOOSE x \in S : \A y \in S : x <= y

\* A variant that filters on the year alone and keeps any period end.
ExtractYearDataAnyPeriod(table, year) ==
    IF table.none \/ table.rows = << >> \/ ~table.date_col
    THEN 0
    ELSE LET filtered ==
                {i \in DOMAIN table.rows :
                    StrContains(DateStr(table.rows[i]), YearStr(year))}
         IN  IF filtered # {} THEN MaxOf(filtered) ELSE 0

\* extract_year_data(df, year): None (0) for a table that is None or empty
\* or has no report-date column; otherwise filtered.iloc[-1], the last row
\* the filter keeps, and None when it keeps none.
ExtractYearData(table, year) ==
    IF table.none \/ table.rows = << >> \/ ~table.date_col
    THEN 0
    ELSE LET filtered == YearEndRows(table, year)
         IN  IF filtered # {} THEN MaxOf(filtered) ELSE 0

YdIdle ==
    /\ ydPc = "off"
    /\ df = NoDf
    /\ ydYear = 0
    /\ ydRow = 0

YdInit ==
    /\ ydPc = "idle"
    /\ df \in Dfs
    /\ ydYear \in DfYears
    /\ ydRow = 0

\* A call extract_year_data(df, year).
YdExtract ==
    /\ ydPc = "idle"
    /\ ydRow' = ExtractYearData(df, ydYear)
    /\ ydPc' = "returned"
    /\ UNCHANGED <<df, ydYear>>
    /\ UNCHANGED notYd

YdNext == YdExtract

(***************************************************************************)
(* Section 6.  get_value_from_row and calculate_growth_metrics             *)
(*             (07_财务分析.py)                                             *)
(***************************************************************************)

\* The last year of the statement (main's end_year).
GmLastYear == 2024

\* Number of years the statement covers, ending with GmLastYear.
MaxGmYears == 6

GmYears == (GmLastYear - MaxGmYears + 1)..GmLastYear

\* The years of the two compound growth rates.
Cagr5Years == 5
Cagr3Years == 3

\* 元 per 0.01 亿: a value in 亿 with two decimals is a whole number of these.
YuanPerCent == 1000000

\* A statement cell: the column is absent from the row, or holds NaN, None,
\* a text that float() rejects, a number of 元, or a text that float()
\* reads as one.
AbsentCell == [kind |-> "absent", v |-> 0]
NanCell == [kind |-> "nan", v |-> 0]
NoneCell == [kind |-> "none", v |-> 0]
TextCell == [kind |-> "text", v |-> 0]
Num(n) == [kind |-> "num", v |-> n]
NumText(n) == [kind |-> "numtext", v |-> n]

\* round(a / b) for b > 0, to the nearest whole number, a tie to the even
\* one, as Python's round does with a tie the float holds exactly.
RoundDiv(a, b) ==
    LET q == a \div b
        r == a - q * b
    IN  IF 2 * r < b THEN q
        ELSE IF 2 * r > b THEN q + 1
        ELSE IF q % 2 = 0 THEN q ELSE q + 1

\* The default "-" and a number, as get_value_from_row returns them; the
\* number is in units of 0.01 亿.
Dash == [dash |-> TRUE, v |-> 0]
Value(n) == [dash |-> FALSE, v |-> n]

\* Amounts of 元 that lie halfway between two hundredths of 亿 and whose
\* quotient by 100000000 the float holds a little above (0.005, 0.025) or a
\* little below (0.015) the half: round goes the way of the float.
HalfHeldAbove == {500000, 2500000}
HalfHeldBelow == {1500000}

\* round(num_value / 100000000, 2), in units of 0.01 亿.
RoundToYi(v) ==
    LET a == IF v < 0 THEN -v ELSE v
        sign == IF v < 0 THEN -1 ELSE 1
    IN  IF a \in HalfHeldAbove THEN sign * (a \div YuanPerCent + 1)
        ELSE IF a \in HalfHeldBelow THEN sign * (a \div YuanPerCent)
        ELSE RoundDiv(v, YuanPerCent)

\* A variant that cuts the value off after two decimals.
GetValueFromRowTruncating(row, column_name) ==
    IF ~row.present THEN Dash
    ELSE LET cell == row[column_name] IN
         IF cell.kind \notin {"num", "numtext"} THEN Dash
         ELSE Value(cell.v \div YuanPerCent)

\* get_value_from_row(row, column_name, "-"): the default when the row is
\* None, the column is absent, or float(value) raises ValueError or
\* TypeError or gives NaN; otherwise round(float(value) / 100000000, 2).
GetValueFromRow(row, column_name) ==
    IF ~row.present THEN Dash
    ELSE LET cell == row[column_name] IN
         IF cell.kind \notin {"num", "numtext"} THEN Dash
         ELSE Value(RoundToYi(cell.v))

\* The 12-31 row of a year in the profit statement: none, or the two cells
\* the growth table reads.
AbsentRow == [present |-> FALSE, OPERATE_INCOME |-> AbsentCell,
              PARENT_NETPROFIT |-> AbsentCell]

RevenueCells == <<NanCell, Num(0), Num(-100000000), Num(200000000)>>
ProfitCells == <<Num(300000000), TextCell, Num(400000), Num(-100000000)>>

GmRows ==
    {AbsentRow} \cup
    {[present |-> TRUE, OPERATE_INCOME |-> RevenueCells[i],
      PARENT_NETPROFIT |-> ProfitCells[i]] : i \in 1..4}

NoStatement == [y \in {} |-> AbsentRow]

\* extract_year_data(data['profit'], year) on a statement with at most one
\* 12-31 row per year.
ProfitRow(profit, year) ==
    IF year \in DOMAIN profit THEN profit[year] ELSE AbsentRow

\* A table cell: "-" or a number.  A growth rate is in units of 0.01 %; a
\* compound rate is kept as the two values and the number of years that
\* pow(ratio, 1/n) is computed from.
DashCell == [filled |-> FALSE, v |-> 0, n |-> 0, first |-> 0, last |-> 0]
GrowthCell(g) == [filled |-> TRUE, v |-> g, n |-> 0, first |-> 0, last |-> 0]
CagrCell(years, a, b) ==
    [filled |-> TRUE, v |-> 0, n |-> years, first |-> a, last |-> b]

\* revenue_values / profit_values: the values of the years of
\* range(start_year, end_year + 1) whose row exists and whose value is not
\* "-".
ValuesInRange(profit, start, end, column_name) ==
    LET have == {y \in start..end :
                    ~GetValueFromRow(ProfitRow(profit, y), column_name).dash}
    IN  [y \in have |-> GetValueFromRow(ProfitRow(profit, y), column_name).v]

\* A variant of the yearly growth that divides by a previous value of 0
\* unguarded (reported here as a filled cell of 0).
YearGrowthNoZeroGuard(values, year, start) ==
    IF year = start THEN DashCell
    ELSE IF year \in DOMAIN values /\ (year - 1) \in DOMAIN values
         THEN IF values[year - 1] # 0
              THEN LET prev == values[year - 1]
                       curr == values[year]
                   IN  IF prev > 0
                       THEN GrowthCell(RoundDiv((curr - prev) * 10000, prev))
                       ELSE GrowthCell(RoundDiv((prev - curr) * 10000, -prev))
              ELSE GrowthCell(0)
         ELSE DashCell

\* The growth cell of one year: "-" for start_year; otherwise
\* round((curr - prev) / prev * 100, 2) when both years have a value and the
\* previous one is not 0.
YearGrowth(values, year, start) ==
    IF year = start THEN DashCell
    ELSE IF year \in DOMAIN values /\ (year - 1) \in DOMAIN values
         THEN IF values[year - 1] # 0
              THEN LET prev == values[year - 1]
                       curr == values[year]
                   IN  IF prev > 0
                       THEN GrowthCell(RoundDiv((curr - prev) * 10000, prev))
                       ELSE GrowthCell(RoundDiv((prev - curr) * 10000, -prev))
              ELSE DashCell
         ELSE DashCell

\* The compound growth cell over n years: filled when end_year and
\* end_year - n both have a value in the dictionary and both are > 0.
Cagr(values, end, n) ==
    IF end \in DOMAIN values /\ (end - n) \in DOMAIN values
    THEN IF values[end - n] > 0 /\ values[end] > 0
         THEN CagrCell(n, values[end - n], values[end])
         ELSE DashCell
    ELSE DashCell

NoTable == [columns |-> << >>, cells |-> << >>]

\* str(year) as a column name: the year itself.
YearColumns(start, end) == [i \in 1..(end - start + 1) |-> start + i - 1]

\* Column names that are not years.
ColSubject == 0
ColCagr5 == 5
ColCagr3 == 3

\* calculate_growth_metrics(symbol, start_year, end_year): None without a
\* profit statement; otherwise the table of the two rows 收入增长率 and
\* 归母净利润增长率, with the columns 科目, the years, 最近5年, 最近3年.
CalculateGrowthMetrics(profit, hasProfit, start, end) ==
    IF ~hasProfit THEN NoTable
    ELSE
    LET revenue_values == ValuesInRange(profit, start, end, "OPERATE_INCOME")
        profit_values == ValuesInRange(profit, start, end, "PARENT_NETPROFIT")
    IN  [columns |-> <<ColSubject>> \o YearColumns(start, end)
                        \o <<ColCagr5, ColCagr3>>,
         cells |->
            [c \in (start..end) \cup {ColCagr5, ColCagr3} |->
                IF c = ColCagr5
                THEN <<Cagr(revenue_values, end, Cagr5Years),
                       Cagr(profit_values, end, Cagr5Years)>>
                ELSE IF c = ColCagr3
                THEN <<Cagr(revenue_values, end, Cagr3Years),
                       Cagr(profit_values, end, Cagr3Years)>>
                ELSE <<YearGrowth(revenue_values, c, start),
                       YearGrowth(profit_values, c, start)>>]]

GmIdle ==
    /\ gmPc = "off"
    /\ gmProfit = [hasProfit |-> FALSE, rows |-> NoStatement]
    /\ gmStart = GmLastYear
    /\ gmEnd = GmLastYear
    /\ result_df = NoTable

\* How many years before end_year the range asked for starts.
GmRangeLengths == {0, 2, 4, 5}

\* The statement is missing, or covers the years with any rows; the range
\* asked for ends with the statement's last year or the year before.
GmInit ==
    /\ gmPc = "idle"
    /\ gmProfit \in
         {[hasProfit |-> FALSE, rows |-> NoStatement]} \cup
         [hasProfit : {TRUE}, rows : [GmYears -> GmRows]]
    /\ gmEnd \in {GmLastYear - 1, GmLastYear}
    /\ gmStart \in {gmEnd - k : k \in GmRangeLengths} \cap GmYears
    /\ result_df = NoTable

\* A call calculate_growth_metrics(symbol, start_year, end_year).
GmCalculate ==
    /\ gmPc = "idle"
    /\ result_df' = CalculateGrowthMetrics(gmProfit.rows, gmProfit.hasProfit,
                                           gmStart, gmEnd)
    /\ gmPc' = "returned"
    /\ UNCHANGED <<gmProfit, gmStart, gmEnd>>
    /\ UNCHANGED notGm

GmNext == GmCalculate

(***************************************************************************)
(* Section 7.  save_to_excel (07_财务分析.py)                               *)
(***************************************************************************)

\* The number of calls of save_to_excel in a run.
MaxSaves == 2

\* The second at which the run starts and main takes its timestamp.
SeStart == 1

\* The seconds the clock can show.
MaxSeClock == 2

\* The tables handed over: None, an empty one, or one of two with rows.
SeTables == {"None", "empty", "t1", "t2"}

\* The sheet names 营收基本数据 and 费用构成.
SeSheetNames == {"revenue", "expense"}

\* output_dir, company_name, start_year and end_year of a call.
SeTargets ==
    { [output_dir |-> "output", company_name |-> "603486",
       start_year |-> 2015, end_year |-> 2024],
      [output_dir |-> "reports", company_name |-> "600728",
       start_year |-> 2020, end_year |-> 2024] }

\* The timestamp argument: None, or the one main took when the run started.
SeTimestamps == {None, SeStart}

NoPath == [dir |-> "", company_name |-> "", start_year |-> 0,
           end_year |-> 0, timestamp |-> None]

\* os.path.join(output_dir,
\*   f"{company_name}_{start_year}-{end_year}_财务分析_{timestamp}.xlsx"):
\* the parts the path is made of; the sheet name and the symbol are not
\* among them.
FilePath(output_dir, company_name, start, end, timestamp) ==
    [dir |-> output_dir, company_name |-> company_name, start_year |-> start,
     end_year |-> end, timestamp |-> timestamp]

\* A sheet: the table written, and whether the formula notes were added
\* below it.
Sheet(table, notes) == [table |-> table, notes |-> notes]

\* A variant that writes the sheet to a fresh workbook (mode 'w').
WriteSheetTruncating(book, sheet_name, sheet) ==
    [n \in {sheet_name} |-> sheet]

\* df.to_excel through ExcelWriter: a new workbook with the one sheet, or
\* with mode='a', if_sheet_exists='replace' the workbook with this sheet
\* added or replaced and every other sheet kept.
WriteSheet(book, sheet_name, sheet) ==
    [n \in DOMAIN book \cup {sheet_name} |->
        IF n = sheet_name THEN sheet ELSE book[n]]

NoBook == [n \in {} |-> Sheet("", FALSE)]

\* How the body of the try block ends: the sheet is written ("ok"); an
\* exception before anything is written ("raise_early"), or while the rows
\* are being written, the workbook being saved on leaving the with block
\* ("raise_late").  A call that returns before the try block has the
\* outcome "unreached".
SeOutcomes == {"ok", "raise_early", "raise_late"}

\* save_to_excel(df, symbol, company_name, start_year, end_year,
\* sheet_name, output_dir, timestamp) at second now: the files, the
\* directories and the value returned.
SaveToExcel(files, dirs, now, table, t, sheet_name, timestamp, outcome) ==
    IF table \in {"None", "empty"}
    THEN [files |-> files, dirs |-> dirs, result |-> NoPath]
    ELSE
    LET stamp == IF timestamp = None THEN now ELSE timestamp
        filepath == FilePath(t.output_dir, t.company_name, t.start_year,
                             t.end_year, stamp)
        book == IF filepath \in DOMAIN files THEN files[filepath] ELSE NoBook
        written(sheet) ==
            [f \in DOMAIN files \cup {filepath} |->
                IF f = filepath THEN WriteSheet(book, sheet_name, sheet)
                ELSE files[f]]
        dirs2 == dirs \cup {t.output_dir}
    IN  CASE outcome = "ok" ->
               [files |-> written(Sheet(table, TRUE)), dirs |-> dirs2,
                result |-> filepath]
          [] outcome = "raise_early" ->
               [files |-> files, dirs |-> dirs2, result |-> NoPath]
          [] outcome = "raise_late" ->
               [files |-> written(Sheet("partial", FALSE)), dirs |-> dirs2,
                result |-> NoPath]

NoCall == [df |-> "None", target |-> CHOOSE t \in SeTargets : TRUE,
           sheet_name |-> "", timestamp |-> None, outcome |-> "ok", now |-> 0]

SeIdle ==
    /\ sePc = "off"
    /\ seFiles = << >>
    /\ seDirs = {}
    /\ seClock = 0
    /\ seCalls = 0
    /\ seCall = NoCall
    /\ seBefore = << >>
    /\ seResult = NoPath

\* The workbook an earlier call of the run has written.
SeEarlierFile ==
    FilePath("output", "603486", 2015, 2024, SeStart)

SeEarlierBook == WriteSheet(NoBook, "revenue", Sheet("t1", TRUE))

\* The run has just started: there is no file yet, or the one an earlier
\* call has written.
SeInit ==
    /\ sePc = "run"
    /\ \/ seFiles = << >> /\ seDirs = {}
       \/ /\ seFiles = [f \in {SeEarlierFile} |-> SeEarlierBook]
          /\ seDirs = {"output"}
    /\ seClock = SeStart
    /\ seCalls = 0
    /\ seCall = NoCall
    /\ seBefore = << >>
    /\ seResult = NoPath

\* A second passes.
SeTick ==
    /\ sePc = "run"
    /\ seClock < MaxSeClock
    /\ seClock' = seClock + 1
    /\ UNCHANGED <<sePc, seFiles, seDirs, seCalls, seCall, seBefore, seResult>>
    /\ UNCHANGED notSe

\* One call of save_to_excel.
SeSave ==
    /\ sePc = "run"
    /\ seCalls < MaxSaves
    /\ \E table \in SeTables, t \in SeTargets, sheet_name \in SeSheetNames,
          timestamp \in SeTimestamps :
       \E outcome \in (IF table \in {"None", "empty"} THEN {"unreached"}
                       ELSE SeOutcomes) :
         LET r == SaveToExcel(seFiles, seDirs, seClock, table, t, sheet_name,
                              timestamp, outcome)
         IN  /\ seFiles' = r.files
             /\ seDirs' = r.dirs
             /\ seResult' = r.result
             /\ seBefore' = seFiles
             /\ seCall' = [df |-> table, target |-> t, sheet_name |-> sheet_name,
                           timestamp |-> timestamp, outcome |-> outcome,
                           now |-> seClock]
    /\ seCalls' = seCalls + 1
    /\ UNCHANGED <<sePc, seClock>>
    /\ UNCHANGED notSe

SeNext == SeTick \/ SeSave

(***************************************************************************)
(* Section 8.  convert_hk_long_to_wide and get_hk_column_mapping           *)
(*             (hk_financial_adapter.py)                                   *)
(***************************************************************************)

\* The number of rows of the long table.
MaxHkRows == 3

\* STD_ITEM_NAME values: 除税后溢利, 持续经营业务税后利润, 毛利, and 其他收益,
\* which the mapping does not know.
HkItems == {"profit_after_tax", "continuing_profit_after_tax",
            "gross_profit", "other_gains"}

\* get_hk_column_mapping('利润表'), the entries of these items in the order
\* of the dictionary: <<港股科目名, A股字段名>>.
HkColumnMapping ==
    << <<"profit_after_tax", "NET_PROFIT">>,
       <<"continuing_profit_after_tax", "NET_PROFIT">>,
       <<"gross_profit", "GROSS_PROFIT">> >>

\* MAPPED_ITEM_NAME of a row: the field the item is mapped to, or the item
\* name itself when the mapping has no entry for it.
MappedItemName(item) ==
    IF \E i \in DOMAIN HkColumnMapping : HkColumnMapping[i][1] = item
    THEN HkColumnMapping[CHOOSE i \in DOMAIN HkColumnMapping :
                            HkColumnMapping[i][1] = item][2]
    ELSE item

\* The report periods, and the amounts: NaN (None) or a number.
HkDates == {"2022-12-31", "2023-12-31"}
HkAmounts == {None, 5, 7}

HkRows == [date : HkDates, item : HkItems, amount : HkAmounts]

HkRowSeqs(n) == UNION {[1..k -> HkRows] : k \in 0..n}

\* The columns a long table can come with: all of them, with one or
\* another period column, or short of AMOUNT or of any period column.
HkFullColumns == {"STD_ITEM_NAME", "AMOUNT", "REPORT_DATE"}
HkOtherColumns ==
    { {"STD_ITEM_NAME", "AMOUNT", "STD_REPORT_DATE", "FISCAL_YEAR"},
      {"STD_ITEM_NAME", "REPORT_DATE"},
      {"STD_ITEM_NAME", "AMOUNT"} }

NoFrame == [none |-> TRUE, columns |-> {}, rows |-> << >>]
NoWide == [none |-> TRUE, cells |-> {}]

\* The period column: the first of the three that the table has.
DateCol(columns) ==
    IF "REPORT_DATE" \in columns THEN "REPORT_DATE"
    ELSE IF "STD_REPORT_DATE" \in columns THEN "STD_REPORT_DATE"
    ELSE IF "FISCAL_YEAR" \in columns THEN "FISCAL_YEAR"
    ELSE "none"

\* The rows of a period that feed a column and carry an amount.
CellRows(rows, date, column) ==
    {i \in DOMAIN rows : /\ rows[i].date = date
                         /\ MappedItemName(rows[i].item) = column
                         /\ rows[i].amount # None}

\* aggfunc='first': the first of the rows, in the order of the table.
FirstInTable(rows, candidates) == MinOf(candidates)

\* pivot_table(index=date_col, columns='MAPPED_ITEM_NAME', values='AMOUNT',
\* aggfunc='first'): one cell per period and column that has an amount.
PivotTable(rows) ==
    {[date |-> d, column |-> c,
      amount |-> rows[FirstInTable(rows, CellRows(rows, d, c))].amount] :
        <<d, c>> \in {<<rows[i].date, MappedItemName(rows[i].item)>> :
                         i \in {j \in DOMAIN rows : rows[j].amount # None}}}

\* chinese_name_mapping: for a mapped field the first item of the mapping
\* that occurs in the table, for an unmapped item the item itself.
ChineseNameMapping(rows) ==
    LET present == {rows[i].item : i \in DOMAIN rows}
        hits(a_name) == {i \in DOMAIN HkColumnMapping :
                            /\ HkColumnMapping[i][2] = a_name
                            /\ HkColumnMapping[i][1] \in present}
    IN  {<<HkColumnMapping[i][2], HkColumnMapping[i][1]>> :
            i \in {j \in DOMAIN HkColumnMapping :
                      /\ HkColumnMapping[j][1] \in present
                      /\ j = MinOf(hits(HkColumnMapping[j][2]))}}
        \cup {<<it, it>> : it \in {x \in present : MappedItemName(x) = x}}

\* convert_hk_long_to_wide(df_long, '利润表'): (None, {}) for no table, an
\* empty one, or one short of a column it needs; otherwise the wide table
\* and the name dictionary.
ConvertHkLongToWide(frame) ==
    IF frame.none \/ Len(frame.rows) = 0
    THEN [wide |-> NoWide, names |-> {}]
    ELSE IF "STD_ITEM_NAME" \notin frame.columns
              \/ "AMOUNT" \notin frame.columns
    THEN [wide |-> NoWide, names |-> {}]
    ELSE IF DateCol(frame.columns) = "none"
    THEN [wide |-> NoWide, names |-> {}]
    ELSE [wide |-> [none |-> FALSE, cells |-> PivotTable(frame.rows)],
          names |-> ChineseNameMapping(frame.rows)]

CvIdle ==
    /\ cvPc = "off"
    /\ df_long = NoFrame
    /\ df_wide = NoWide
    /\ chinese_name_mapping = {}

CvInit ==
    /\ cvPc = "idle"
    /\ df_long \in
         {NoFrame}
         \cup [none : {FALSE}, columns : {HkFullColumns},
               rows : HkRowSeqs(MaxHkRows)]
         \cup [none : {FALSE}, columns : HkOtherColumns, rows : HkRowSeqs(1)]
    /\ df_wide = NoWide
    /\ chinese_name_mapping = {}

\* A call convert_hk_long_to_wide(df_long, '利润表').
CvConvert ==
    /\ cvPc = "idle"
    /\ df_wide' = ConvertHkLongToWide(df_long).wide
    /\ chinese_name_mapping' = ConvertHkLongToWide(df_long).names
    /\ cvPc' = "returned"
    /\ UNCHANGED df_long
    /\ UNCHANGED notCv

CvNext == CvConvert

(***************************************************************************)
(* Section 9.  search_hkex_annual_reports and                              *)
(*             parse_html_for_annual_reports (09_下载港股年报PDF.py)         *)
(***************************************************************************)

\* The number of links on the result page.
MaxLinks == 2

\* The words of a link title: 年報, 年度報告, Annual Report, 中期報告,
\* Interim Report, 通函.
HxTexts == {"nianbao", "niandubaogao", "annual_report", "zhongqibaogao",
            "interim_report", "tonghan"}

\* The first 20dd in a title, and the year directory of a link path:
\* None for a title or a path that has none.
HxTitleYears == {None, 2023, 2024}
HxPathYears == {None, 2024}

HxLinks == [year : HxTitleYears, text : HxTexts, path_year : HxPathYears]

HxPages == UNION {[1..k -> HxLinks] : k \in 0..MaxLinks}

\* '年報' in title or '年报' in title or 'annual' in title.lower()
HasAnnualWord(text) == text \in {"nianbao", "annual_report"}

\* '年度報告' in title or '年度报告' in title
HasAnnualReportWord(text) == text = "niandubaogao"

\* '中期' in title or '半年' in title or 'interim' in title.lower()
HasInterimWord(text) == text \in {"zhongqibaogao", "interim_report"}

\* The first pattern of parse_html_for_annual_reports: a title with
\* 年報告 or 年度報告.
MatchesReportPattern(text) == text = "niandubaogao"

\* report_year of search_hkex_annual_reports: the year found in the title,
\* or else in the path; less one when the title has 年報 or annual.
SearchReportYear(link) ==
    LET year == IF link.year # None THEN link.year ELSE link.path_year
    IN  IF year # None
        THEN IF HasAnnualWord(link.text) THEN year - 1 ELSE year
        ELSE None

\* is_annual of search_hkex_annual_reports.
SearchIsAnnual(link) ==
    HasAnnualWord(link.text) /\ ~HasInterimWord(link.text)

\* year of parse_html_for_annual_reports: the year found in the title, or
\* else the year of the path less one.
ParseYear(link) ==
    IF link.year # None THEN link.year
    ELSE IF link.path_year # None THEN link.path_year - 1
    ELSE None

\* is_annual of parse_html_for_annual_reports.
ParseIsAnnual(link) ==
    HasAnnualWord(link.text) \/ HasAnnualReportWord(link.text)

Result(link, year) == [year |-> year, title |-> [year |-> link.year,
                                                  text |-> link.text],
                       path_year |-> link.path_year]

RECURSIVE UniqueYears(_, _)
\* 去重（按年份）: unique_results, the first result of every year.
UniqueYears(found, seen_years) ==
    IF found = << >> THEN << >>
    ELSE IF Head(found).year \in seen_years
         THEN UniqueYears(Tail(found), seen_years)
         ELSE <<Head(found)>>
                \o UniqueYears(Tail(found),
                               seen_years \cup {Head(found).year})

RECURSIVE SortByYearDesc(_)
\* sort(key=year, reverse=True) of found with distinct years.
SortByYearDesc(found) ==
    IF found = << >> THEN << >>
    ELSE LET top == CHOOSE i \in DOMAIN found :
                        \A j \in DOMAIN found :
                            found[j].year <= found[i].year
         IN  <<found[top]>>
               \o SortByYearDesc([k \in 1..(Len(found) - 1) |->
                                    IF k < top THEN found[k]
                                    ELSE found[k + 1]])

\* search_hkex_annual_reports on a page received: every annual link, in
\* page order, with its report_year.
SearchHkexAnnualReports(page) ==
    LET kept == SelectSeq(page, SearchIsAnnual)
    IN  [i \in 1..Len(kept) |-> Result(kept[i], SearchReportYear(kept[i]))]

\* parse_html_for_annual_reports on a saved page: the links the first
\* pattern matches or, if it matches none, all links; of them those that
\* are not interim, are annual and have a year; one per year, latest first.
ParseHtmlForAnnualReports(page) ==
    LET strict == SelectSeq(page, LAMBDA l : MatchesReportPattern(l.text))
        matches == IF strict # << >> THEN strict ELSE page
        keep(l) == /\ ~HasInterimWord(l.text)
                   /\ ParseIsAnnual(l)
                   /\ ParseYear(l) # None
        kept == SelectSeq(matches, keep)
        labelled == [i \in 1..Len(kept) |-> Result(kept[i], ParseYear(kept[i]))]
    IN  SortByYearDesc(UniqueYears(labelled, {}))

HxIdle ==
    /\ hxPc = "off"
    /\ hxPage = << >>
    /\ hxSearched = "no"
    /\ hxSearch = << >>
    /\ hxParsed = "no"
    /\ hxParse = << >>

HxInit ==
    /\ hxPc = "run"
    /\ hxPage \in HxPages
    /\ hxSearched = "no"
    /\ hxSearch = << >>
    /\ hxParsed = "no"
    /\ hxParse = << >>

\* search_hkex_annual_reports: the request answers with the page, or with
\* another status than 200, or raises.
HxSearch ==
    /\ hxPc = "run"
    /\ hxSearched = "no"
    /\ \E response \in {"200", "status", "raise"} :
         IF response = "200"
         THEN /\ hxSearch' = SearchHkexAnnualReports(hxPage)
              /\ hxSearched' = "ok"
         ELSE /\ hxSearch' = << >>
              /\ hxSearched' = "failed"
    /\ UNCHANGED <<hxPc, hxPage, hxParsed, hxParse>>
    /\ UNCHANGED notHx

\* parse_html_for_annual_reports on the page saved to a file: the file is
\* read, or is missing or unreadable.
HxParseHtml ==
    /\ hxPc = "run"
    /\ hxParsed = "no"
    /\ \E readable \in BOOLEAN :
         IF readable
         THEN /\ hxParse' = ParseHtmlForAnnualReports(hxPage)
              /\ hxParsed' = "ok"
         ELSE /\ hxParse' = << >>
              /\ hxParsed' = "failed"
    /\ UNCHANGED <<hxPc, hxPage, hxSearched, hxSearch>>
    /\ UNCHANGED notHx

HxNext == HxSearch \/ HxParseHtml

(***************************************************************************)
(* Section 10.  search_announcements_cninfo (08_下载年报PDF.py)             *)
(***************************************************************************)

\* The number of announcements in one answer of the server.
MaxAnns == 2

\* search_strategies: 1 is the stock code with the date range of year + 1,
\* 2 the stock code with "{year}年" and no date range.
SearchStrategies == <<"code_and_seDate", "code_and_year_keyword">>

\* symbol_clean, and the code of another stock that the search key also hits.
SaSymbol == "600900"
SaOtherSymbol == "600901"

\* A title is the set of the words it contains: 年度报告, 年报, 摘要, 英文, 更正,
\* 补充, 修订, and str(year).
SaWords == {"niandubaogao", "nianbao", "zhaiyao", "yingwen", "gengzheng",
            "buchong", "xiuding", "year"}

\* The announcements the server can list: secCode and announcementTitle.
SaAnnouncements ==
    { [secCode |-> SaSymbol, title |-> {"niandubaogao", "year"}],
      [secCode |-> "", title |-> {"nianbao", "year"}],
      [secCode |-> SaOtherSymbol, title |-> {"niandubaogao", "year"}],
      [secCode |-> SaSymbol, title |-> {"niandubaogao", "year", "zhaiyao"}],
      [secCode |-> SaSymbol, title |-> {"niandubaogao", "year", "yingwen"}],
      [secCode |-> SaSymbol, title |-> {"nianbao", "year", "gengzheng"}],
      [secCode |-> "", title |-> {"niandubaogao", "year", "buchong"}],
      [secCode |-> SaSymbol, title |-> {"niandubaogao", "year", "xiuding"}],
      [secCode |-> SaSymbol, title |-> {"niandubaogao"}],
      [secCode |-> SaSymbol, title |-> {"year"}] }

\* An answer: the request raises, the status is not 200, the body is not
\* JSON, the JSON is not a dict, or it is a dict with its announcements.
SaFailures == {"raise", "status", "bad_json", "not_dict"}

SaResponses ==
    [kind : SaFailures, ann_list : {<< >>}]
    \cup [kind : {"dict"},
          ann_list : UNION {[1..k -> SaAnnouncements] : k \in 0..MaxAnns}]

\* A variant of the filter that lets revised reports (修订) through.
IsValidAnnualReportNoRevision(title) ==
    /\ ("niandubaogao" \in title \/ "nianbao" \in title)
    /\ "zhaiyao" \notin title
    /\ "yingwen" \notin title
    /\ "gengzheng" \notin title
    /\ "buchong" \notin title

\* is_valid_annual_report
IsValidAnnualReport(title) ==
    /\ ("niandubaogao" \in title \/ "nianbao" \in title)
    /\ "zhaiyao" \notin title
    /\ "yingwen" \notin title
    /\ "gengzheng" \notin title
    /\ "buchong" \notin title
    /\ "xiuding" \notin title

\* The announcements of one answer that pass the filter of the loop over
\* ann_list: not of another stock, a valid annual report, with the year in
\* the title; secCode is filled in with symbol_clean.
FilterAnnouncements(ann_list) ==
    LET keep(ann) ==
            /\ ~(ann.secCode # "" /\ ann.secCode # SaSymbol)
            /\ IsValidAnnualReport(ann.title)
            /\ "year" \in ann.title
        kept == SelectSeq(ann_list, keep)
    IN  [i \in 1..Len(kept) |->
            [secCode |-> IF kept[i].secCode # "" THEN kept[i].secCode
                         ELSE SaSymbol,
             title |-> kept[i].title]]

SaIdle ==
    /\ saPc = "off"
    /\ saIdx = 0
    /\ saQueried = << >>
    /\ saResponses = << >>
    /\ saResult = << >>

SaInit ==
    /\ saPc = "loop"
    /\ saIdx = 1
    /\ saQueried = << >>
    /\ saResponses = << >>
    /\ saResult = << >>

\* One turn of the loop over search_strategies: the request of strategy
\* saIdx and what the function does with the answer.
SaQuery ==
    /\ saPc = "loop"
    /\ \E response \in SaResponses :
         LET announcements == FilterAnnouncements(response.ann_list)
             last == saIdx = Len(SearchStrategies)
         IN  /\ saQueried' = Append(saQueried, saIdx)
             /\ saResponses' = Append(saResponses, response)
             /\ IF response.kind = "dict" /\ announcements # << >>
                THEN /\ saResult' = announcements
                     /\ saPc' = "returned"
                     /\ UNCHANGED saIdx
                ELSE IF last
                THEN /\ saResult' = << >>
                     /\ saPc' = "returned"
                     /\ UNCHANGED saIdx
                ELSE /\ saIdx' = saIdx + 1
                     /\ UNCHANGED <<saPc, saResult>>
    /\ UNCHANGED notSa

SaNext == SaQuery

(***************************************************************************)
(* Section 11.  main (批量下载年报.py)                                      *)
(***************************************************************************)

\* The years main accepts.
MnMinYear == 2000
MnMaxYear == 2035

\* The exit status after a keyboard interrupt.
MnInterrupted == 130

\* The years that can be asked for: those of the ranges, and one on either
\* side of what main accepts.
MnYears == BdYears \cup {MnMinYear - 1, MnMaxYear + 1}

\* The arguments after parsing and prompting; numeric is FALSE when a year
\* typed in is not a number.
MnArgs == [symbol : {"", "600900"}, numeric : BOOLEAN,
           start_year : MnYears, end_year : MnYears]

\* The checks before the try block: main returns when one of them fails.
MnValid(args) ==
    /\ args.numeric
    /\ args.symbol # ""
    /\ ~(args.start_year > args.end_year)
    /\ ~(args.start_year < MnMinYear \/ args.end_year > MnMaxYear)

\* sum(1 for v in results.values() if v is not None)
SuccessCount(res) == Cardinality({y \in DOMAIN res : res[y] # None})

\* The status handed to sys.exit after the call has returned.
MnExitCode(res) ==
    IF SuccessCount(res) = 0 THEN 1
    ELSE IF SuccessCount(res) < Cardinality(DOMAIN res) THEN 2
    ELSE 0

\* An exception in flight.
MnException(kind, code) == [kind |-> kind, code |-> code]

\* A variant of the handlers whose second clause catches every exception,
\* SystemExit included.
MnHandlersCatchAll(exc) ==
    CASE exc.kind = "KeyboardInterrupt" -> MnInterrupted
      [] OTHER -> 1

\* The except clauses of main and the end of the process: 130 for a
\* KeyboardInterrupt, 1 for an Exception; SystemExit is neither and ends
\* the process with its own code.
MnHandlers(exc) ==
    CASE exc.kind = "KeyboardInterrupt" -> MnInterrupted
      [] exc.kind = "Exception" -> 1
      [] exc.kind = "SystemExit" -> exc.code

NoResults == [y \in {} |-> None]

MnIdle ==
    /\ mnPc = "off"
    /\ mnArgs = [symbol |-> "", numeric |-> FALSE, start_year |-> MnMinYear,
                 end_year |-> MnMinYear]
    /\ mnResults = NoResults
    /\ mnExc = "none"
    /\ mnStatus = None

MnInit ==
    /\ mnPc = "args"
    /\ mnArgs \in MnArgs
    /\ mnResults = NoResults
    /\ mnExc = "none"
    /\ mnStatus = None

\* The checks of the arguments: main goes on to the call, or prints an
\* error and returns, which ends the process with status 0.
MnValidate ==
    /\ mnPc = "args"
    /\ IF MnValid(mnArgs)
       THEN mnPc' = "call" /\ UNCHANGED mnStatus
       ELSE mnPc' = "exited" /\ mnStatus' = 0
    /\ UNCHANGED <<mnArgs, mnResults, mnExc>>
    /\ UNCHANGED notMn

\* batch_download_reports returns: a path or None for each year of the
\* range.
MnBatchReturns ==
    /\ mnPc = "call"
    /\ \E got \in [mnArgs.start_year..mnArgs.end_year -> BOOLEAN] :
         mnResults' = [y \in DOMAIN got |->
                          IF got[y] THEN BdPath(y) ELSE None]
    /\ mnPc' = "counted"
    /\ UNCHANGED <<mnArgs, mnExc, mnStatus>>
    /\ UNCHANGED notMn

\* The call is interrupted from the keyboard or raises: the matching except
\* clause ends the process.
MnBatchRaises ==
    /\ mnPc = "call"
    /\ \E kind \in {"KeyboardInterrupt", "Exception"} :
         /\ mnExc' = kind
         /\ mnStatus' = MnHandlers(MnException(kind, None))
    /\ mnPc' = "exited"
    /\ UNCHANGED <<mnArgs, mnResults>>
    /\ UNCHANGED notMn

\* sys.exit(code) inside the try block raises SystemExit(code).
MnExit ==
    /\ mnPc = "counted"
    /\ mnExc' = "SystemExit"
    /\ mnStatus' = MnHandlers(MnException("SystemExit", MnExitCode(mnResults)))
    /\ mnPc' = "exited"
    /\ UNCHANGED <<mnArgs, mnResults>>
    /\ UNCHANGED notMn

MnNext == MnValidate \/ MnBatchReturns \/ MnBatchRaises \/ MnExit

(***************************************************************************)
(* Section 12.  Calls of get_value_from_row (07_财务分析.py)                *)
(***************************************************************************)

\* Amounts of 元: none, below and above half a hundredth of 亿, halves of
\* either kind, whole and broken amounts of either sign.
GvAmounts == {0, 400000, 500000, 789000, 1500000, 12500000, 123456789,
              -100000000, -500000, -2500000}

GvCells == {AbsentCell, NanCell, NoneCell, TextCell}
           \cup {Num(n) : n \in GvAmounts}
           \cup {NumText(200000000)}

GvRows == {AbsentRow}
          \cup [present : {TRUE}, OPERATE_INCOME : GvCells,
                PARENT_NETPROFIT : {AbsentCell, NanCell, Num(300000000)}]

GvColumns == {"OPERATE_INCOME", "PARENT_NETPROFIT"}

GvIdle ==
    /\ gvPc = "off"
    /\ gvRow = AbsentRow
    /\ gvColumn = "OPERATE_INCOME"
    /\ gvResult = Dash

GvInit ==
    /\ gvPc = "idle"
    /\ gvRow \in GvRows
    /\ gvColumn \in GvColumns
    /\ gvResult = Dash

\* A call get_value_from_row(row, column_name, "-").
GvCall ==
    /\ gvPc = "idle"
    /\ gvResult' = GetValueFromRow(gvRow, gvColumn)
    /\ gvPc' = "returned"
    /\ UNCHANGED <<gvRow, gvColumn>>
    /\ UNCHANGED notGv

GvNext == GvCall

(***************************************************************************)
(* Section 13.  The indicator tables of 07_财务分析.py:                     *)
(* calculate_revenue_metrics, calculate_roi_metrics and                    *)
(* calculate_asset_turnover_metrics                                        *)
(***************************************************************************)

MaxMtYears == 3

\* The years a table can cover; the last one is the script's end_year.
MtYears == (GmLastYear - MaxMtYears + 1)..GmLastYear

\* n 亿 in 元; the amounts of the model stay below 2^31 元.
Yi(n) == n * 100 * YuanPerCent

\* get_value_from_row(row, column_name, default): default is "-" or 0.
GetValueFromRowDefault(row, column_name, default) ==
    LET got == GetValueFromRow(row, column_name)
    IN  IF got.dash THEN default ELSE got

\* The pattern "x = get_value_from_row(row, col, 0); if x == '-': x = 0".
NumberOrZero(row, column_name) ==
    LET got == GetValueFromRowDefault(row, column_name, Value(0))
    IN  IF got.dash THEN 0 ELSE got.v

\* The pattern "x = get_value_from_row(row, col, '-'); if x == '-': x = 0".
DashAsZero(row, column_name) ==
    LET got == GetValueFromRowDefault(row, column_name, Dash)
    IN  IF got.dash THEN 0 ELSE got.v

\* round(a / b, 0) for b of either sign.
RoundQuot(a, b) == IF b < 0 THEN RoundDiv(-a, -b) ELSE RoundDiv(a, b)

\* round(a / b * 100, 2), in units of 0.01 %.
Pct(a, b) == RoundQuot(a * 10000, b)

\* round(a / b, 2), in units of 0.01.
Ratio(a, b) == RoundQuot(a * 100, b)

\* A column of n cells that still hold the "-" they were initialised with.
AllDash(n) == [i \in 1..n |-> Dash]

\* ---- the 12-31 rows of one year ----

MtNoProfitRow ==
    [present |-> FALSE, OPERATE_INCOME |-> AbsentCell,
     PARENT_NETPROFIT |-> AbsentCell, DEDUCT_PARENT_NETPROFIT |-> AbsentCell,
     FAIRVALUE_CHANGE_INCOME |-> AbsentCell, INVEST_INCOME |-> AbsentCell,
     OPERATE_PROFIT |-> AbsentCell, OPERATE_COST |-> AbsentCell,
     SALE_EXPENSE |-> AbsentCell, MANAGE_EXPENSE |-> AbsentCell,
     RESEARCH_EXPENSE |-> AbsentCell, FINANCE_EXPENSE |-> AbsentCell,
     FE_INTEREST_EXPENSE |-> AbsentCell]

MtProfitRow ==
    [present |-> TRUE, OPERATE_INCOME |-> Num(Yi(20)),
     PARENT_NETPROFIT |-> Num(Yi(2)), DEDUCT_PARENT_NETPROFIT |-> Num(Yi(1)),
     FAIRVALUE_CHANGE_INCOME |-> AbsentCell, INVEST_INCOME |-> Num(Yi(1)),
     OPERATE_PROFIT |-> Num(Yi(4)), OPERATE_COST |-> Num(Yi(12)),
     SALE_EXPENSE |-> Num(Yi(2)), MANAGE_EXPENSE |-> Num(Yi(1)),
     RESEARCH_EXPENSE |-> Num(Yi(1)), FINANCE_EXPENSE |-> Num(Yi(-2)),
     FE_INTEREST_EXPENSE |-> Num(Yi(3))]

MtNoCashFlowRow ==
    [present |-> FALSE, NETCASH_OPERATE |-> AbsentCell,
     CONSTRUCT_LONG_ASSET |-> AbsentCell]

MtCashFlowRow ==
    [present |-> TRUE, NETCASH_OPERATE |-> Num(Yi(8)),
     CONSTRUCT_LONG_ASSET |-> Num(Yi(2))]

MtNoBalanceRow ==
    [present |-> FALSE, TOTAL_ASSETS |-> AbsentCell,
     TOTAL_CURRENT_ASSETS |-> AbsentCell, INVENTORY |-> AbsentCell,
     TOTAL_PARENT_EQUITY |-> AbsentCell, ACCOUNTS_RECE |-> AbsentCell,
     PREPAYMENT |-> AbsentCell, CONTRACT_ASSET |-> AbsentCell,
     ACCOUNTS_PAYABLE |-> AbsentCell, ADVANCE_RECEIVABLES |-> AbsentCell,
     CONTRACT_LIAB |-> AbsentCell, FIXED_ASSET |-> AbsentCell,
     CIP |-> AbsentCell, PROJECT_MATERIAL |-> AbsentCell,
     FIXED_ASSET_DISPOSAL |-> AbsentCell]

MtBalanceRow ==
    [present |-> TRUE, TOTAL_ASSETS |-> Num(Yi(16)),
     TOTAL_CURRENT_ASSETS |-> Num(Yi(8)), INVENTORY |-> Num(Yi(2)),
     TOTAL_PARENT_EQUITY |-> Num(Yi(12)), ACCOUNTS_RECE |-> Num(Yi(4)),
     PREPAYMENT |-> Num(Yi(2)), CONTRACT_ASSET |-> AbsentCell,
     ACCOUNTS_PAYABLE |-> Num(Yi(6)), ADVANCE_RECEIVABLES |-> NanCell,
     CONTRACT_LIAB |-> Num(Yi(4)), FIXED_ASSET |-> Num(Yi(6)),
     CIP |-> Num(Yi(2)), PROJECT_MATERIAL |-> AbsentCell,
     FIXED_ASSET_DISPOSAL |-> AbsentCell]

\* A later year-end of the same company: every figure has grown.
MtBalanceRowGrown ==
    [MtBalanceRow EXCEPT !.TOTAL_ASSETS = Num(Yi(20)),
                         !.TOTAL_CURRENT_ASSETS = Num(Yi(10)),
                         !.INVENTORY = NanCell,
                         !.TOTAL_PARENT_EQUITY = Num(Yi(14)),
                         !.ACCOUNTS_RECE = Num(Yi(6)),
                         !.FIXED_ASSET = Num(Yi(8))]

\* The rows of one year as get_annual_data and extract_year_data give them.
YearRows(profit_row, cash_flow_row, balance_row) ==
    [profit |-> profit_row, cash_flow |-> cash_flow_row,
     balance |-> balance_row]

\* What calculate_revenue_metrics can meet in one year.
MtRevenueCases ==
    { YearRows(p, c, MtNoBalanceRow) :
        p \in {MtNoProfitRow, MtProfitRow,
               [MtProfitRow EXCEPT !.OPERATE_INCOME = NanCell],
               [MtProfitRow EXCEPT !.PARENT_NETPROFIT = AbsentCell],
               [MtProfitRow EXCEPT !.DEDUCT_PARENT_NETPROFIT = NanCell,
                                   !.PARENT_NETPROFIT = Num(0)]},
        c \in {MtNoCashFlowRow, MtCashFlowRow} }

\* What calculate_asset_turnover_metrics can meet in one year.
MtTurnoverCases ==
    { YearRows(p, MtNoCashFlowRow, MtBalanceRow) :
        p \in {MtNoProfitRow, MtProfitRow,
               [MtProfitRow EXCEPT !.OPERATE_INCOME = NanCell]} }
    \cup
    { YearRows(MtProfitRow, MtNoCashFlowRow, b) :
        b \in {MtNoBalanceRow, MtBalanceRowGrown,
               [MtBalanceRow EXCEPT !.TOTAL_ASSETS = NanCell],
               [MtBalanceRow EXCEPT !.TOTAL_PARENT_EQUITY = AbsentCell]} }

\* What calculate_roi_metrics can meet in one year.
MtRoiCases ==
    { YearRows([MtProfitRow EXCEPT !.FE_INTEREST_EXPENSE = fe,
                                   !.FINANCE_EXPENSE = fin],
               MtNoCashFlowRow, MtBalanceRow) :
        fe \in {Num(Yi(3)), AbsentCell, NanCell},
        fin \in {Num(Yi(-2)), Num(Yi(1)), AbsentCell} }
    \cup
    { YearRows(p, MtNoCashFlowRow, b) :
        p \in {MtNoProfitRow,
               [MtProfitRow EXCEPT !.OPERATE_PROFIT = AbsentCell]},
        b \in {MtBalanceRow,
               [MtBalanceRow EXCEPT !.TOTAL_PARENT_EQUITY = NanCell]} }

\* ---- calculate_revenue_metrics ----

RevenueIndicators == 13

\* The column of one year: the body of the loop of calculate_revenue_metrics.
\* A "continue" leaves the cells written before it.
RevenueYear(rows) ==
    LET profit_row == rows.profit
        cash_flow_row == rows.cash_flow
        revenue == GetValueFromRow(profit_row, "OPERATE_INCOME")
        parent_net_profit == GetValueFromRow(profit_row, "PARENT_NETPROFIT")
        deduct == GetValueFromRow(profit_row, "DEDUCT_PARENT_NETPROFIT")
        operate_cash_flow == GetValueFromRow(cash_flow_row, "NETCASH_OPERATE")
        capex == GetValueFromRow(cash_flow_row, "CONSTRUCT_LONG_ASSET")
        financial_profit ==
            NumberOrZero(profit_row, "FAIRVALUE_CHANGE_INCOME")
            + NumberOrZero(profit_row, "INVEST_INCOME")
        operate_profit == parent_net_profit.v - financial_profit
        OfProfit(x) ==
            IF parent_net_profit.v # 0
            THEN Value(Pct(x, parent_net_profit.v)) ELSE Dash
    IN  IF ~profit_row.present \/ ~cash_flow_row.present
        THEN AllDash(RevenueIndicators)
        ELSE IF revenue.dash THEN AllDash(RevenueIndicators)
        ELSE IF parent_net_profit.dash
        THEN [AllDash(RevenueIndicators) EXCEPT ![1] = revenue]
        ELSE << revenue,
                parent_net_profit,
                Value(IF revenue.v # 0
                      THEN Pct(parent_net_profit.v, revenue.v) ELSE 0),
                deduct,
                operate_cash_flow,
                capex,
                IF ~operate_cash_flow.dash /\ ~capex.dash
                THEN Value(operate_cash_flow.v - capex.v) ELSE Dash,
                IF ~deduct.dash THEN OfProfit(deduct.v) ELSE Dash,
                IF ~operate_cash_flow.dash
                THEN OfProfit(operate_cash_flow.v) ELSE Dash,
                Value(financial_profit),
                Value(operate_profit),
                OfProfit(operate_profit),
                OfProfit(financial_profit) >>

\* calculate_revenue_metrics(symbol, start_year, end_year), given the rows
\* of every year: the year columns of the returned DataFrame.
CalculateRevenueMetrics(data) ==
    [y \in DOMAIN data |-> RevenueYear(data[y])]

\* ---- calculate_roi_metrics ----

RoiIndicators == 6

\* operate_profit of calculate_roi_metrics: the statement's figure, or
\* revenue less cost and the three period expenses.
RoiOperateProfit(profit_row, revenue) ==
    LET got == GetValueFromRow(profit_row, "OPERATE_PROFIT")
    IN  IF ~got.dash THEN got.v
        ELSE revenue - NumberOrZero(profit_row, "OPERATE_COST")
                     - ( NumberOrZero(profit_row, "SALE_EXPENSE")
                       + NumberOrZero(profit_row, "MANAGE_EXPENSE")
                       + NumberOrZero(profit_row, "RESEARCH_EXPENSE") )

\* interest_expense of calculate_roi_metrics: FE_INTEREST_EXPENSE is read
\* with the default 0, and then compared with "-".
InterestExpense(profit_row) ==
    LET interest_expense ==
            GetValueFromRowDefault(profit_row, "FE_INTEREST_EXPENSE", Value(0))
        finance_expense ==
            GetValueFromRowDefault(profit_row, "FINANCE_EXPENSE", Value(0))
    IN  IF interest_expense.dash
        THEN IF finance_expense.dash THEN 0 ELSE Abs(finance_expense.v)
        ELSE interest_expense.v

\* EBIT = operate_profit + interest_expense.
Ebit(profit_row, revenue) ==
    RoiOperateProfit(profit_row, revenue) + InterestExpense(profit_row)

\* invested_capital = total_assets - (payables + advances + contract
\* liabilities).
InvestedCapital(balance_row, total_assets) ==
    total_assets - ( NumberOrZero(balance_row, "ACCOUNTS_PAYABLE")
                   + NumberOrZero(balance_row, "ADVANCE_RECEIVABLES")
                   + NumberOrZero(balance_row, "CONTRACT_LIAB") )

\* The column of one year: the body of the loop of calculate_roi_metrics.
RoiYear(rows) ==
    LET balance_row == rows.balance
        profit_row == rows.profit
        parent_net_profit == GetValueFromRow(profit_row, "PARENT_NETPROFIT")
        revenue == GetValueFromRow(profit_row, "OPERATE_INCOME")
        total_assets == GetValueFromRow(balance_row, "TOTAL_ASSETS")
        parent_equity == GetValueFromRow(balance_row, "TOTAL_PARENT_EQUITY")
        ebit == Ebit(profit_row, revenue.v)
        invested_capital == InvestedCapital(balance_row, total_assets.v)
    IN  IF \/ ~balance_row.present \/ ~profit_row.present
           \/ parent_net_profit.dash \/ revenue.dash
           \/ total_assets.dash \/ parent_equity.dash
        THEN AllDash(RoiIndicators)
        ELSE << IF parent_equity.v # 0
                THEN Value(Pct(parent_net_profit.v, parent_equity.v))
                ELSE Dash,
                IF total_assets.v # 0
                THEN Value(Pct(parent_net_profit.v, total_assets.v))
                ELSE Dash,
                IF invested_capital # 0
                THEN Value(Pct(ebit, invested_capital)) ELSE Dash,
                IF revenue.v # 0
                THEN Value(Pct(parent_net_profit.v, revenue.v)) ELSE Dash,
                IF total_assets.v # 0
                THEN Value(Ratio(revenue.v, total_assets.v)) ELSE Dash,
                IF parent_equity.v # 0
                THEN Value(Ratio(total_assets.v, parent_equity.v))
                ELSE Dash >>

\* calculate_roi_metrics(symbol, start_year, end_year): the year columns.
CalculateRoiMetrics(data) ==
    [y \in DOMAIN data |-> RoiYear(data[y])]

\* ---- calculate_asset_turnover_metrics ----

TurnoverIndicators == 12
DaysPerYear == 365

\* prev_year_data = {}.
NoPrevYearData == [y \in {} |-> 0]

\* round((prev + current) / 2, 2), in units of 0.01 亿.
Mean(prev, current) == RoundQuot(prev + current, 2)

\* round(average / revenue * 365, 2), in units of 0.01 day.
TurnoverDays(average, revenue) ==
    RoundQuot(average * DaysPerYear * 100, revenue)

\* wc of a year-end: receivables, prepayments, inventory and contract
\* assets less payables, advances and contract liabilities.
WorkingCapital(balance_row) ==
    ( NumberOrZero(balance_row, "ACCOUNTS_RECE")
    + NumberOrZero(balance_row, "PREPAYMENT")
    + DashAsZero(balance_row, "INVENTORY")
    + NumberOrZero(balance_row, "CONTRACT_ASSET") )
    - ( NumberOrZero(balance_row, "ACCOUNTS_PAYABLE")
      + NumberOrZero(balance_row, "ADVANCE_RECEIVABLES")
      + NumberOrZero(balance_row, "CONTRACT_LIAB") )

\* total_fixed_asset of a year-end.
TotalFixedAsset(balance_row) ==
    NumberOrZero(balance_row, "FIXED_ASSET")
    + NumberOrZero(balance_row, "CIP")
    + NumberOrZero(balance_row, "PROJECT_MATERIAL")
    - NumberOrZero(balance_row, "FIXED_ASSET_DISPOSAL")

\* One pass of the loop of calculate_asset_turnover_metrics for `year`,
\* entered with prev_year_data = prev: the column of the year and the
\* prev_year_data it leaves.  A "continue" empties prev_year_data and leaves
\* the cells written before it.
TurnoverYear(rows, year, prev) ==
    LET balance_row == rows.balance
        profit_row == rows.profit
        revenue == GetValueFromRow(profit_row, "OPERATE_INCOME")
        total_assets == GetValueFromRow(balance_row, "TOTAL_ASSETS")
        current_assets == DashAsZero(balance_row, "TOTAL_CURRENT_ASSETS")
        inventory == DashAsZero(balance_row, "INVENTORY")
        parent_equity == GetValueFromRow(balance_row, "TOTAL_PARENT_EQUITY")
        accounts_receivable == NumberOrZero(balance_row, "ACCOUNTS_RECE")
        wc == WorkingCapital(balance_row)
        total_fixed_asset == TotalFixedAsset(balance_row)
        has_prev == (year - 1) \in DOMAIN prev
        Average(key, current) ==
            IF has_prev THEN Value(Mean(prev[year - 1][key], current))
            ELSE Dash
        Days(average) ==
            IF ~average.dash /\ revenue.v # 0
            THEN Value(TurnoverDays(average.v, revenue.v)) ELSE Dash
        avg_total_assets == Average("total_assets", total_assets.v)
        avg_current_assets == Average("current_assets", current_assets)
        avg_inventory == Average("inventory", inventory)
        written == [AllDash(TurnoverIndicators) EXCEPT
                       ![1] = total_assets,
                       ![2] = avg_total_assets,
                       ![3] = avg_current_assets,
                       ![4] = avg_inventory]
    IN  IF \/ ~balance_row.present \/ ~profit_row.present
           \/ revenue.dash \/ total_assets.dash
        THEN [column |-> AllDash(TurnoverIndicators),
              prev |-> NoPrevYearData]
        ELSE IF parent_equity.dash
        THEN [column |-> written, prev |-> NoPrevYearData]
        ELSE [column |->
                << total_assets,
                   avg_total_assets,
                   avg_current_assets,
                   avg_inventory,
                   parent_equity,
                   Average("parent_equity", parent_equity.v),
                   Days(avg_total_assets),
                   Days(avg_current_assets),
                   Days(Average("wc", wc)),
                   Days(Average("accounts_receivable", accounts_receivable)),
                   Days(avg_inventory),
                   Days(Average("fixed_asset", total_fixed_asset)) >>,
              prev |->
                [y \in DOMAIN prev \cup {year} |->
                    IF y = year
                    THEN [total_assets |-> total_assets.v,
                          current_assets |-> current_assets,
                          inventory |-> inventory,
                          parent_equity |-> parent_equity.v,
                          wc |-> wc,
                          accounts_receivable |-> accounts_receivable,
                          fixed_asset |-> total_fixed_asset]
                    ELSE prev[y]]]

\* The loop of calculate_asset_turnover_metrics from start_year up to
\* `year`: the columns written so far and prev_year_data.
RECURSIVE TurnoverLoop(_, _, _)
TurnoverLoop(data, start, year) ==
    IF year < start
    THEN [columns |-> [y \in {} |-> AllDash(TurnoverIndicators)],
          prev |-> NoPrevYearData]
    ELSE LET before == TurnoverLoop(data, start, year - 1)
             this == TurnoverYear(data[year], year, before.prev)
         IN  [columns |->
                [y \in start..year |->
                    IF y = year THEN this.column ELSE before.columns[y]],
              prev |-> this.prev]

\* calculate_asset_turnover_metrics(symbol, start_year, end_year): the year
\* columns.
CalculateAssetTurnoverMetrics(data, start, end) ==
    TurnoverLoop(data, start, end).columns

\* ---- the calls ----

MtCalls == {"revenue", "roi", "turnover"}

\* A table function returned None: a statement could not be fetched.
MtNone == [none |-> TRUE, columns |-> [y \in {} |-> << >>]]
MtTable(columns) == [none |-> FALSE, columns |-> columns]

\* The rows a call can meet in one year.
MtCases(call) ==
    IF call = "revenue" THEN MtRevenueCases
    ELSE IF call = "roi" THEN MtRoiCases
    ELSE MtTurnoverCases

\* No 12-31 row in any statement.
MtNoRows == YearRows(MtNoProfitRow, MtNoCashFlowRow, MtNoBalanceRow)

MtIdle ==
    /\ mtPc = "off"
    /\ mtCall = "revenue"
    /\ mtStart = GmLastYear
    /\ mtFetched = FALSE
    /\ mtData = [y \in {GmLastYear} |-> MtNoRows]
    /\ mtTable = MtNone

\* A call for start_year..end_year; either a statement the function needs
\* is None, or every year has rows of one of the cases.
MtInit ==
    /\ mtPc = "idle"
    /\ mtCall \in MtCalls
    /\ mtStart \in MtYears
    /\ mtFetched \in BOOLEAN
    /\ IF mtFetched
       THEN mtData \in [mtStart..GmLastYear -> MtCases(mtCall)]
       ELSE mtData = [y \in mtStart..GmLastYear |-> MtNoRows]
    /\ mtTable = MtNone

\* calculate_revenue_metrics(symbol, start_year, end_year).
MtRevenue ==
    /\ mtPc = "idle"
    /\ mtCall = "revenue"
    /\ mtTable' = IF ~mtFetched THEN MtNone
                  ELSE MtTable(CalculateRevenueMetrics(mtData))
    /\ mtPc' = "returned"
    /\ UNCHANGED <<mtCall, mtStart, mtFetched, mtData>>
    /\ UNCHANGED notMt

\* calculate_roi_metrics(symbol, start_year, end_year).
MtRoi ==
    /\ mtPc = "idle"
    /\ mtCall = "roi"
    /\ mtTable' = IF ~mtFetched THEN MtNone
                  ELSE MtTable(CalculateRoiMetrics(mtData))
    /\ mtPc' = "returned"
    /\ UNCHANGED <<mtCall, mtStart, mtFetched, mtData>>
    /\ UNCHANGED notMt

\* calculate_asset_turnover_metrics(symbol, start_year, end_year).
MtTurnover ==
    /\ mtPc = "idle"
    /\ mtCall = "turnover"
    /\ mtTable' = IF ~mtFetched THEN MtNone
                  ELSE MtTable(CalculateAssetTurnoverMetrics(
                                   mtData, mtStart, GmLastYear))
    /\ mtPc' = "returned"
    /\ UNCHANGED <<mtCall, mtStart, mtFetched, mtData>>
    /\ UNCHANGED notMt

MtNext == MtRevenue \/ MtRoi \/ MtTurnover

(***************************************************************************)
(* Section 14.  The smart algorithm of 智能_从年报提取员工数量.py:          *)
(* the candidates of the strategies, _validate_and_merge_results and       *)
(* extract_employee_count_from_pdf_smart                                   *)
(*                                                                         *)
(* Confidences and scores are in units of 0.001.                           *)
(***************************************************************************)

\* Numbers a strategy can read in a report: too small, a small company, a
\* year, a placeholder, a usual head count, a very large one, too large.
SmNumbers == {300, 800, 2024, 9999, 12000, 150000, 250000}

\* What the context handed to _is_reasonable_employee_count holds: nothing,
\* the name 比亚迪/BYD, a word of a listed company (上市, 股份, 集团,
\* 有限公司), or none of these.
SmContexts == {"empty", "byd", "listed", "other"}

YearLike == 1990..2030
Placeholders == {0, 9999, 99999, 999999, 9999999}

\* A variant that does not exclude the numbers that look like a year.
IsReasonableEmployeeCountYearsKept(num, context) ==
    /\ num \notin Placeholders
    /\ IF context = "byd" THEN num \in 150000..200000
       ELSE IF context = "listed" THEN num \in 1000..200000
       ELSE IF context = "other" THEN num \in 500..100000
       ELSE num \in 500..200000

\* _is_reasonable_employee_count(num, context).
IsReasonableEmployeeCount(num, context) ==
    /\ num \notin YearLike
    /\ num \notin Placeholders
    /\ IF context = "byd" THEN num \in 150000..200000
       ELSE IF context = "listed" THEN num \in 1000..200000
       ELSE IF context = "other" THEN num \in 500..100000
       ELSE num \in 500..200000

\* min(confidence, 1.0).
CapAtOne(confidence) == IF confidence > 1000 THEN 1000 ELSE confidence

\* A row or line of text, by the number of keywords of each list of
\* employee_keywords it holds, and by what the scoring function looks for in
\* a source text (a word of 截止/年末/期末/合计/总数, a "." or "，", a
\* financial term).
RowText(high, medium, total, basic, closing, financial) ==
    [high |-> high, medium |-> medium, total |-> total, basic |-> basic,
     closing |-> closing, decimal |-> FALSE, financial |-> financial]

\* "在职员工总数": 在职员工总数 and 员工总数 are high priority keywords, 总数
\* a total indicator, 员工 a basic term.
RowHeadCount == RowText(2, 0, 1, 1, TRUE, FALSE)

\* "员工人数": a medium priority keyword and a basic term.
RowPlain == RowText(0, 1, 0, 1, FALSE, FALSE)

\* "生产人员": a basic term only.
RowCategory == RowText(0, 0, 0, 1, FALSE, FALSE)

\* The source text "<table>: 合计行" of a candidate taken from a total row.
TotalRowSource == RowText(0, 0, 1, 0, TRUE, FALSE)

\* A passage of page text around a match: no keyword counted, and possibly
\* a word of 截止/年末/期末/合计/总数.
Passage(closing) == RowText(0, 0, 0, 0, closing, FALSE)

\* _is_employee_related_row(text): whether the row is about employees.
IsEmployeeRelated(row) ==
    \/ row.high > 0
    \/ row.medium > 0
    \/ (row.basic > 0 /\ row.total > 0)

\* _is_employee_related_row(text): the match strength, capped at 1.0.
MatchStrength(row) ==
    CapAtOne(400 * row.high + 200 * row.medium + 300 * row.total
             + 100 * row.basic)

\* _calculate_table_confidence(row_text, row_idx, total_rows).
CalculateTableConfidence(row, near_bottom) ==
    CapAtOne(500
             + (IF row.total > 0 THEN 400 ELSE 0)
             + (IF row.high > 0 THEN 300
                ELSE IF row.medium > 0 THEN 200 ELSE 0)
             + (IF near_bottom THEN 100 ELSE 0))

\* _calculate_text_confidence(line, context, match_strength); in_section:
\* the context holds 员工 and 情况.
CalculateTextConfidence(row, in_section) ==
    CapAtOne(400
             + (IF row.total > 0 THEN 400 ELSE 0)
             + (IF in_section THEN 200 ELSE 0)
             + (MatchStrength(row) * 3) \div 10)

\* _calculate_pattern_confidence(matched_text, full_text).
CalculatePatternConfidence(has_total, has_section) ==
    CapAtOne(600 + (IF has_total THEN 200 ELSE 0)
                 + (IF has_section THEN 100 ELSE 0))

\* An EmployeeData: count, confidence, extraction_strategy and what the
\* scoring function reads in source_text.
EmployeeData(count, confidence, strategy, source) ==
    [count |-> count, confidence |-> confidence,
     extraction_strategy |-> strategy, source_text |-> source]

\* EmployeeData() of a result without success, and a strategy's None.
NoEmployeeData == EmployeeData(None, 0, "none", Passage(FALSE))

\* ---- the candidates of the strategies ----

\* The confidence _extract_from_explicit_text_description gives by the
\* pattern that matched.
ExplicitConfidences == {980, 950, 920, 900}

\* _extract_from_explicit_text_description: the candidate for a number
\* matched on a page (context: the page text).
ExplicitTextCandidate(num, context, confidence, closing) ==
    IF IsReasonableEmployeeCount(num, context)
    THEN EmployeeData(num, confidence, "keyword_matching", Passage(closing))
    ELSE NoEmployeeData

\* _analyze_table_with_enhanced_logic: the candidate for a number of a table
\* row (context: the row text).
AnalyzeTableWithEnhancedLogic(row, num, context, near_bottom) ==
    IF IsEmployeeRelated(row) /\ IsReasonableEmployeeCount(num, context)
    THEN EmployeeData(num,
                      CapAtOne((CalculateTableConfidence(row, near_bottom)
                                * (1000 + MatchStrength(row))) \div 1000),
                      "keyword_matching", row)
    ELSE NoEmployeeData

\* _extract_from_text_enhanced: the candidate for a number of a line of text
\* (context: the line).
ExtractFromTextEnhanced(row, num, context, in_section) ==
    IF IsEmployeeRelated(row) /\ IsReasonableEmployeeCount(num, context)
    THEN EmployeeData(num, CalculateTextConfidence(row, in_section),
                      "keyword_matching", row)
    ELSE NoEmployeeData

\* _extract_from_structured_table: the candidate for a number of the total
\* row (context "<table>: 合计行") or, failing that, of another row about
\* employees (context: the row text), with 0.7 * (1 + match_strength * 0.5).
ExtractFromStructuredTable(row, num, context, from_total_row) ==
    IF from_total_row
    THEN IF IsReasonableEmployeeCount(num, "other")
         THEN EmployeeData(num, 900, "table_analysis", TotalRowSource)
         ELSE NoEmployeeData
    ELSE IF IsEmployeeRelated(row) /\ IsReasonableEmployeeCount(num, context)
         THEN EmployeeData(num, 700 + (35 * MatchStrength(row)) \div 100,
                           "table_analysis", row)
         ELSE NoEmployeeData

\* _extract_with_pattern_recognition: the candidate for a number matched on
\* a page (context: the page text).
PatternCandidate(num, context, has_total, has_section) ==
    IF IsReasonableEmployeeCount(num, context)
    THEN EmployeeData(num, CalculatePatternConfidence(has_total, has_section),
                      "pattern_recognition", Passage(has_total))
    ELSE NoEmployeeData

\* ---- _validate_and_merge_results ----

\* enhanced_scoring_function(result).
EnhancedScoringFunction(result) ==
    result.confidence
    + (IF result.count \in 50000..200000 THEN 300
       ELSE IF result.count \in 10000..50000 THEN 200
       ELSE IF result.count \in 5000..10000 THEN 100
       ELSE IF result.count \in 1000..5000 THEN 50
       ELSE 0)
    + (IF result.source_text.closing THEN 200 ELSE 0)
    - (IF result.source_text.decimal THEN 400 ELSE 0)
    - (IF result.source_text.financial THEN 300 ELSE 0)

\* abs(a - b) / max(a, b) < 0.15.
CountsAreClose(a, b) ==
    100 * Abs(a - b) < 15 * (IF a > b THEN a ELSE b)

\* The index of the first result of the greatest count (max(key=count)).
FirstOfMaxCount(found) ==
    CHOOSE i \in 1..Len(found) :
        /\ \A j \in 1..Len(found) : found[j].count <= found[i].count
        /\ \A j \in 1..(i - 1) : found[j].count < found[i].count

\* The index of the first result of the greatest confidence.
FirstOfMaxConfidence(found) ==
    CHOOSE i \in 1..Len(found) :
        /\ \A j \in 1..Len(found) : found[j].confidence <= found[i].confidence
        /\ \A j \in 1..(i - 1) : found[j].confidence < found[i].confidence

\* The index of the result a stable sort by descending score puts first.
FirstOfMaxScore(found) ==
    CHOOSE i \in 1..Len(found) :
        /\ \A j \in 1..Len(found) :
              EnhancedScoringFunction(found[j])
                <= EnhancedScoringFunction(found[i])
        /\ \A j \in 1..(i - 1) :
              EnhancedScoringFunction(found[j])
                < EnhancedScoringFunction(found[i])

\* The results the second level keeps: explicit text, else high, else medium
\* confidence, else all the reasonable ones.
CandidateResults(reasonable_results) ==
    LET Explicit(r) == r.extraction_strategy = "keyword_matching"
                       /\ r.confidence >= 900
        High(r) == r.confidence >= 800
        Medium(r) == r.confidence >= 600 /\ r.confidence < 800
        explicit_text_results == SelectSeq(reasonable_results, Explicit)
        high_confidence_results == SelectSeq(reasonable_results, High)
        medium_confidence_results == SelectSeq(reasonable_results, Medium)
    IN  IF explicit_text_results # << >> THEN explicit_text_results
        ELSE IF high_confidence_results # << >> THEN high_confidence_results
        ELSE IF medium_confidence_results # << >>
        THEN medium_confidence_results
        ELSE reasonable_results

\* _validate_and_merge_results(results): None (NoEmployeeData), or the
\* chosen result with its confidence adjusted.
ValidateAndMergeResults(found) ==
    LET Reasonable(r) == r.count >= 500 /\ r.count <= 300000
        Valid(r) == r.count >= 200 /\ r.count <= 300000
        reasonable_results == SelectSeq(found, Reasonable)
        valid_results == SelectSeq(found, Valid)
        candidate_results == CandidateResults(reasonable_results)
        first == FirstOfMaxScore(candidate_results)
        best_result == candidate_results[first]
        verified ==
            \E j \in 1..Len(candidate_results) :
                /\ j # first
                /\ CountsAreClose(best_result.count,
                                  candidate_results[j].count)
        raised == IF verified THEN CapAtOne(best_result.confidence + 100)
                  ELSE best_result.confidence
        lowered == IF best_result.count < 1000 THEN (raised * 8) \div 10
                   ELSE raised
    IN  IF found = << >> THEN NoEmployeeData
        ELSE IF reasonable_results = << >>
        THEN IF valid_results # << >>
             THEN valid_results[FirstOfMaxCount(valid_results)]
             ELSE found[FirstOfMaxConfidence(found)]
        ELSE [best_result EXCEPT !.confidence = lowered]

\* ---- the run of the smart algorithm on one report ----

\* strategies_results with one more candidate, or as it was when the
\* strategy read `num` and made no candidate of it.
SmTake(candidate, num) ==
    IF candidate = NoEmployeeData
    THEN /\ smRejected' = smRejected \cup {num}
         /\ smResults' = smResults
    ELSE /\ smResults' = Append(smResults, candidate)
         /\ smRejected' = smRejected

SmIdle ==
    /\ smPc = "off"
    /\ smResults = << >>
    /\ smRejected = {}
    /\ smFinal = NoEmployeeData
    /\ smCount = None

\* extract_employee_count_from_pdf_smart(pdf_path) has opened the report.
SmInit ==
    /\ smPc = "explicit"
    /\ smResults = << >>
    /\ smRejected = {}
    /\ smFinal = NoEmployeeData
    /\ smCount = None

\* Strategy 0, _extract_from_explicit_text_description, and strategy 1,
\* _extract_with_ai_semantic, which always returns None.
SmExplicitText ==
    /\ smPc = "explicit"
    /\ \/ UNCHANGED <<smResults, smRejected>>
       \/ \E num \in SmNumbers, confidence \in {980, 900} :
             SmTake(ExplicitTextCandidate(num, "listed", confidence, TRUE),
                    num)
    /\ smPc' = "keywords"
    /\ UNCHANGED <<smFinal, smCount>>
    /\ UNCHANGED notSm

\* Strategy 2, _extract_with_enhanced_keywords: a table row, or a line of
\* text when no table gave a candidate.
SmKeywords ==
    /\ smPc = "keywords"
    /\ \/ UNCHANGED <<smResults, smRejected>>
       \/ \E num \in SmNumbers, row \in {RowHeadCount, RowCategory} :
             SmTake(AnalyzeTableWithEnhancedLogic(row, num, "other", FALSE),
                    num)
       \/ \E num \in SmNumbers :
             SmTake(ExtractFromTextEnhanced(RowPlain, num, "other", TRUE),
                    num)
    /\ smPc' = "table"
    /\ UNCHANGED <<smFinal, smCount>>
    /\ UNCHANGED notSm

\* Strategy 3, _extract_with_smart_table_analysis.
SmTable ==
    /\ smPc = "table"
    /\ \/ UNCHANGED <<smResults, smRejected>>
       \/ \E num \in SmNumbers :
             SmTake(ExtractFromStructuredTable(RowCategory, num, "other",
                                               TRUE), num)
       \/ \E num \in SmNumbers, row \in {RowHeadCount, RowPlain} :
             SmTake(ExtractFromStructuredTable(row, num, "other", FALSE),
                    num)
    /\ smPc' = "pattern"
    /\ UNCHANGED <<smFinal, smCount>>
    /\ UNCHANGED notSm

\* Strategy 4, _extract_with_pattern_recognition.
SmPattern ==
    /\ smPc = "pattern"
    /\ \/ UNCHANGED <<smResults, smRejected>>
       \/ \E num \in SmNumbers, context \in {"byd", "listed"},
             has_total \in BOOLEAN :
             SmTake(PatternCandidate(num, context, has_total, FALSE), num)
    /\ smPc' = "merge"
    /\ UNCHANGED <<smFinal, smCount>>
    /\ UNCHANGED notSm

\* Reading the report raises: extract_from_pdf catches the exception and
\* returns a result without success.
SmRaise ==
    /\ smPc \in {"explicit", "keywords", "table", "pattern"}
    /\ smFinal' = NoEmployeeData
    /\ smPc' = "return"
    /\ UNCHANGED <<smResults, smRejected, smCount>>
    /\ UNCHANGED notSm

\* final_result = self._validate_and_merge_results(strategies_results).
SmMerge ==
    /\ smPc = "merge"
    /\ smFinal' = ValidateAndMergeResults(smResults)
    /\ smPc' = "return"
    /\ UNCHANGED <<smResults, smRejected, smCount>>
    /\ UNCHANGED notSm

\* extract_employee_count_from_pdf_smart returns the count, or None.
SmReturn ==
    /\ smPc = "return"
    /\ smCount' = IF smFinal # NoEmployeeData THEN smFinal.count ELSE None
    /\ smPc' = "returned"
    /\ UNCHANGED <<smResults, smRejected, smFinal>>
    /\ UNCHANGED notSm

SmNext ==
    \/ SmExplicitText \/ SmKeywords \/ SmTable \/ SmPattern
    \/ SmRaise \/ SmMerge \/ SmReturn

(***************************************************************************)
(* Section 15.  The row of a year in a statement table, as three functions *)
(* select it: extract_year_data (07_财务分析.py), extract_year_data_hk     *)
(* (hk_financial_adapter.py) and format_statement_data                     *)
(* (财务报表下载工具.py)                                                    *)
(***************************************************************************)

\* Number of rows of the table handed to the three functions.
MaxRyRows == 3

\* The name of the column of the table that holds the report dates:
\* REPORT_DATE, 报告期 (written BAOGAOQI), or a name that holds neither.
RyColumns == {"REPORT_DATE", "BAOGAOQI", "NOTICE"}

\* Report dates of the rows: two year ends, a half year, a missing value.
RyDates ==
    {NaT, [y |-> 2012, m |-> 12, d |-> 31], [y |-> 2013, m |-> 12, d |-> 31],
     [y |-> 2013, m |-> 6, d |-> 30]}

NoRyTable == [none |-> TRUE, column |-> "NOTICE", rows |-> << >>]

RyTables ==
    {NoRyTable}
    \cup [none : {FALSE}, column : RyColumns,
          rows : UNION {[1..k -> RyDates] : k \in 0..MaxRyRows}]

\* "date_col_name in col or '报告期' in col" with the default
\* date_col_name = 'REPORT_DATE' (extract_year_data), and
\* "'REPORT_DATE' in col or '报告期' in col" (format_statement_data).
IsReportDateColumn(col) == col \in {"REPORT_DATE", "BAOGAOQI"}

\* "date_col_name in col or 'REPORT_DATE' in col" with the default
\* date_col_name = 'REPORT_DATE' (extract_year_data_hk).
IsReportDateColumnHk(col) == col = "REPORT_DATE"

\* The table as extract_year_data sees it.
AsDf(table) ==
    [none |-> table.none, date_col |-> IsReportDateColumn(table.column),
     rows |-> table.rows]

\* extract_year_data_hk(df, year): None (0) for a table that is None or
\* empty or has no column whose name holds REPORT_DATE; otherwise
\* filtered.iloc[-1], and None when the filter keeps no row.
ExtractYearDataHk(table, year) ==
    IF table.none \/ table.rows = << >>
          \/ ~IsReportDateColumnHk(table.column)
    THEN 0
    ELSE LET filtered == YearEndRows(AsDf(table), year)
         IN  IF filtered # {} THEN MaxOf(filtered) ELSE 0

\* format_statement_data(df, year): None (0) for a table that is None or
\* empty or has no report-date column; otherwise the figures of
\* filtered.iloc[0], the first row whose date string contains
\* "<year>-12-31", and None when there is none.
FormatStatementData(table, year) ==
    IF table.none \/ table.rows = << >> \/ ~IsReportDateColumn(table.column)
    THEN 0
    ELSE LET filtered ==
                {i \in DOMAIN table.rows :
                    StrContains(DateStr(table.rows[i]),
                                YearStr(year)
                                  \o <<"-", "1", "2", "-", "3", "1">>)}
         IN  IF filtered # {} THEN MinOf(filtered) ELSE 0

RyIdle ==
    /\ ryPc = "off"
    /\ ryTable = NoRyTable
    /\ ryYear = 0
    /\ ryRow = [analysis |-> 0, hk |-> 0, tool |-> 0]

\* The same table and year are about to be handed to the three functions.
RyInit ==
    /\ ryPc = "analysis"
    /\ ryTable \in RyTables
    /\ ryYear \in DfYears
    /\ ryRow = [analysis |-> 0, hk |-> 0, tool |-> 0]

\* A call extract_year_data(df, year).
RyExtractYearData ==
    /\ ryPc = "analysis"
    /\ ryRow' = [ryRow EXCEPT
                   !.analysis = ExtractYearData(AsDf(ryTable), ryYear)]
    /\ ryPc' = "hk"
    /\ UNCHANGED <<ryTable, ryYear>>
    /\ UNCHANGED notRy

\* A call extract_year_data_hk(df, year).
RyExtractYearDataHk ==
    /\ ryPc = "hk"
    /\ ryRow' = [ryRow EXCEPT !.hk = ExtractYearDataHk(ryTable, ryYear)]
    /\ ryPc' = "tool"
    /\ UNCHANGED <<ryTable, ryYear>>
    /\ UNCHANGED notRy

\* A call format_statement_data(df, year).
RyFormatStatementData ==
    /\ ryPc = "tool"
    /\ ryRow' = [ryRow EXCEPT !.tool = FormatStatementData(ryTable, ryYear)]
    /\ ryPc' = "returned"
    /\ UNCHANGED <<ryTable, ryYear>>
    /\ UNCHANGED notRy

RyNext == RyExtractYearData \/ RyExtractYearDataHk \/ RyFormatStatementData

(***************************************************************************)
(* Section 16.  load_employee_count_from_csv and                           *)
(* calculate_per_capita_metrics (07_财务分析.py)                            *)
(***************************************************************************)

\* Number of data rows of the head-count CSV.
MaxCsvRows == 2

\* The years of the table: start_year..end_year.
PcYears == (GmLastYear - 1)..GmLastYear

\* A cell of the column 年份: a year of the table, or text that int()
\* refuses.
CsvYearCells == {Num(y) : y \in PcYears} \cup {TextCell}

\* A cell of the column 员工数量: a head count (0 among them), or empty.
CsvCountCells == {Num(0), Num(800), Num(12000), NanCell}

CsvRows == [year : CsvYearCells, count : CsvCountCells]

\* The file at employee_csv_path: unreadable (missing, undecodable, without
\* the columns 年份 and 员工数量), or its rows.
NoCsv == [readable |-> FALSE, rows |-> << >>]

Csvs ==
    {NoCsv}
    \cup [readable : {TRUE},
          rows : UNION {[1..k -> CsvRows] : k \in 0..MaxCsvRows}]

\* The head counts get_employee_count can return: None, 0, a count.
ApiCounts == {None, 0, 1000}

\* A row of the loop of load_employee_count_from_csv that is stored: both
\* cells are not NaN and int() accepts them.
CsvRowIsValid(row) == row.year.kind = "num" /\ row.count.kind = "num"

\* employee_data_by_year = {}.
NoEmployeeCounts == [y \in {} |-> 0]

\* load_employee_count_from_csv(csv_path): year -> count of the valid rows,
\* a later row replacing an earlier one of the same year.
LoadEmployeeCountFromCsv(csv) ==
    IF ~csv.readable THEN NoEmployeeCounts
    ELSE LET valid == {i \in DOMAIN csv.rows : CsvRowIsValid(csv.rows[i])}
             years == {csv.rows[i].year.v : i \in valid}
         IN  [y \in years |->
                csv.rows[MaxOf({i \in valid : csv.rows[i].year.v = y})]
                   .count.v]

\* A variant that takes the head count of the API for the years the CSV
\* does not cover.
EmployeeDataByYearApiFilled(csv_given, csv, api_count, start, end) ==
    LET loaded == LoadEmployeeCountFromCsv(csv)
    IN  IF csv_given /\ api_count # None
        THEN [y \in DOMAIN loaded \cup (start..end) |->
                 IF y \in DOMAIN loaded THEN loaded[y] ELSE api_count]
        ELSE IF csv_given THEN loaded
        ELSE IF api_count = None THEN NoEmployeeCounts
        ELSE [y \in start..end |-> api_count]

\* employee_data_by_year of calculate_per_capita_metrics: the CSV's counts
\* when employee_csv_path is given, otherwise the one count of
\* get_employee_count for every year, or nothing when that is None.
EmployeeDataByYear(csv_given, csv, api_count, start, end) ==
    IF csv_given THEN LoadEmployeeCountFromCsv(csv)
    ELSE IF api_count = None THEN NoEmployeeCounts
    ELSE [y \in start..end |-> api_count]

\* ---- the statement rows of a year ----

PcNoProfitRow ==
    [present |-> FALSE, OPERATE_INCOME |-> AbsentCell,
     PARENT_NETPROFIT |-> AbsentCell, DEDUCT_PARENT_NETPROFIT |-> AbsentCell]

PcProfitRow ==
    [present |-> TRUE, OPERATE_INCOME |-> Num(Yi(20)),
     PARENT_NETPROFIT |-> Num(Yi(2)), DEDUCT_PARENT_NETPROFIT |-> NanCell]

PcNoBalanceRow == [present |-> FALSE, STAFF_SALARY_PAYABLE |-> AbsentCell]
PcBalanceRow == [present |-> TRUE, STAFF_SALARY_PAYABLE |-> Num(Yi(3))]

PcNoCashFlowRow == [present |-> FALSE, PAY_STAFF_CASH |-> AbsentCell]
PcCashFlowRow == [present |-> TRUE, PAY_STAFF_CASH |-> Num(Yi(6))]

\* What calculate_per_capita_metrics can meet in one year: every row, no
\* cash flow row, no revenue.
PcCases ==
    {YearRows(PcProfitRow, PcCashFlowRow, PcBalanceRow),
     YearRows(PcProfitRow, PcNoCashFlowRow, PcBalanceRow),
     YearRows([PcProfitRow EXCEPT !.OPERATE_INCOME = NanCell],
              PcCashFlowRow, PcBalanceRow)}

\* The year before start_year: its balance row, if the statement has one.
PcPriorCases ==
    {YearRows(PcNoProfitRow, PcNoCashFlowRow, b) :
        b \in {PcNoBalanceRow,
               [PcBalanceRow EXCEPT !.STAFF_SALARY_PAYABLE = Num(Yi(1))]}}

PerCapitaIndicators == 5

\* round(amount / employee_count * 10000, 2): an amount of 亿 per head, in
\* units of 0.01 万元.
PerHead(amount, employee_count) == RoundQuot(amount * 10000, employee_count)

\* The column of one year: the body of the loop of
\* calculate_per_capita_metrics; counts: employee_data_by_year.
PerCapitaYear(data, year, counts) ==
    LET rows == data[year]
        has_count == year \in DOMAIN counts
        employee_count == IF has_count THEN counts[year] ELSE None
        head == IF has_count THEN Value(employee_count) ELSE Dash
        divides == has_count /\ employee_count > 0
        revenue == GetValueFromRow(rows.profit, "OPERATE_INCOME")
        parent_net_profit == GetValueFromRow(rows.profit, "PARENT_NETPROFIT")
        deduct == GetValueFromRow(rows.profit, "DEDUCT_PARENT_NETPROFIT")
        prev_staff_salary_payable ==
            IF (year - 1) \in DOMAIN data
            THEN NumberOrZero(data[year - 1].balance, "STAFF_SALARY_PAYABLE")
            ELSE 0
        total_salary ==
            NumberOrZero(rows.balance, "STAFF_SALARY_PAYABLE")
            - prev_staff_salary_payable
            + NumberOrZero(rows.cash_flow, "PAY_STAFF_CASH")
        Of(amount) ==
            IF divides /\ ~amount.dash
            THEN Value(PerHead(amount.v, employee_count)) ELSE Dash
    IN  IF \/ ~rows.balance.present \/ ~rows.profit.present
           \/ ~rows.cash_flow.present
        THEN AllDash(PerCapitaIndicators)
        ELSE IF revenue.dash
        THEN [AllDash(PerCapitaIndicators) EXCEPT ![1] = head]
        ELSE << head, Of(revenue), Of(parent_net_profit), Of(deduct),
                Of(Value(total_salary)) >>

\* calculate_per_capita_metrics(symbol, start_year, end_year,
\* employee_csv_path): the year columns.
CalculatePerCapitaMetrics(data, start, end, csv_given, csv, api_count) ==
    LET counts == EmployeeDataByYear(csv_given, csv, api_count, start, end)
    IN  [y \in start..end |-> PerCapitaYear(data, y, counts)]

PcIdle ==
    /\ pcPc = "off"
    /\ pcCsvGiven = FALSE
    /\ pcCsv = NoCsv
    /\ pcApi = None
    /\ pcData = [y \in {GmLastYear} |->
                    YearRows(PcNoProfitRow, PcNoCashFlowRow, PcNoBalanceRow)]
    /\ pcTable = MtNone

\* A call with or without employee_csv_path; the three statements were
\* fetched or one of them is None.
PcInit ==
    /\ pcPc \in {"idle", "unfetched"}
    /\ pcCsvGiven \in BOOLEAN
    /\ IF pcCsvGiven
       THEN pcCsv \in Csvs /\ pcApi \in {None, 1000}
       ELSE pcCsv = NoCsv /\ pcApi \in ApiCounts
    /\ \E prior \in PcPriorCases, this \in [PcYears -> PcCases] :
          pcData = [y \in {MinOf(PcYears) - 1} \cup PcYears |->
                       IF y \in PcYears THEN this[y] ELSE prior]
    /\ pcPc = "unfetched" => pcCsv = NoCsv
    /\ pcTable = MtNone

\* calculate_per_capita_metrics returns None: a statement is None.
PcNoStatements ==
    /\ pcPc = "unfetched"
    /\ pcTable' = MtNone
    /\ pcPc' = "returned"
    /\ UNCHANGED <<pcCsvGiven, pcCsv, pcApi, pcData>>
    /\ UNCHANGED notPc

\* calculate_per_capita_metrics(symbol, start_year, end_year,
\* employee_csv_path).
PcCalculate ==
    /\ pcPc = "idle"
    /\ pcTable' = MtTable(CalculatePerCapitaMetrics(
                              pcData, MinOf(PcYears), MaxOf(PcYears),
                              pcCsvGiven, pcCsv, pcApi))
    /\ pcPc' = "returned"
    /\ UNCHANGED <<pcCsvGiven, pcCsv, pcApi, pcData>>
    /\ UNCHANGED notPc

PcNext == PcNoStatements \/ PcCalculate

(***************************************************************************)
(* Specifications                                                          *)
(***************************************************************************)

InitExtract ==
    ExInit /\ PlIdle /\ DlIdle /\ BdIdle /\ YdIdle /\ GmIdle /\ SeIdle
    /\ CvIdle /\ HxIdle /\ SaIdle /\ MnIdle /\ GvIdle /\ MtIdle /\ SmIdle
    /\ RyIdle /\ PcIdle

SpecExtract == InitExtract /\ [][ExNext]_vars

InitPipeline ==
    ExIdle /\ PlInit /\ DlIdle /\ BdIdle /\ YdIdle /\ GmIdle /\ SeIdle
    /\ CvIdle /\ HxIdle /\ SaIdle /\ MnIdle /\ GvIdle /\ MtIdle /\ SmIdle
    /\ RyIdle /\ PcIdle

SpecPipeline == InitPipeline /\ [][PlNext]_vars

InitDownload ==
    ExIdle /\ PlIdle /\ DlInit /\ BdIdle /\ YdIdle /\ GmIdle /\ SeIdle
    /\ CvIdle /\ HxIdle /\ SaIdle /\ MnIdle /\ GvIdle /\ MtIdle /\ SmIdle
    /\ RyIdle /\ PcIdle

SpecDownload == InitDownload /\ [][DlNext]_vars

InitBatchDownload ==
    ExIdle /\ PlIdle /\ DlIdle /\ BdInit /\ YdIdle /\ GmIdle /\ SeIdle
    /\ CvIdle /\ HxIdle /\ SaIdle /\ MnIdle /\ GvIdle /\ MtIdle /\ SmIdle
    /\ RyIdle /\ PcIdle

SpecBatchDownload == InitBatchDownload /\ [][BdNext]_vars

InitYearData ==
    ExIdle /\ PlIdle /\ DlIdle /\ BdIdle /\ YdInit /\ GmIdle /\ SeIdle
    /\ CvIdle /\ HxIdle /\ SaIdle /\ MnIdle /\ GvIdle /\ MtIdle /\ SmIdle
    /\ RyIdle /\ PcIdle

SpecYearData == InitYearData /\ [][YdNext]_vars

InitGrowth ==
    ExIdle /\ PlIdle /\ DlIdle /\ BdIdle /\ YdIdle /\ GmInit /\ SeIdle
    /\ CvIdle /\ HxIdle /\ SaIdle /\ MnIdle /\ GvIdle /\ MtIdle /\ SmIdle
    /\ RyIdle /\ PcIdle

SpecGrowth == InitGrowth /\ [][GmNext]_vars

InitExcel ==
    ExIdle /\ PlIdle /\ DlIdle /\ BdIdle /\ YdIdle /\ GmIdle /\ SeInit
    /\ CvIdle /\ HxIdle /\ SaIdle /\ MnIdle /\ GvIdle /\ MtIdle /\ SmIdle
    /\ RyIdle /\ PcIdle

SpecExcel == InitExcel /\ [][SeNext]_vars

InitConvert ==
    ExIdle /\ PlIdle /\ DlIdle /\ BdIdle /\ YdIdle /\ GmIdle /\ SeIdle
    /\ CvInit /\ HxIdle /\ SaIdle /\ MnIdle /\ GvIdle /\ MtIdle /\ SmIdle
    /\ RyIdle /\ PcIdle

SpecConvert == InitConvert /\ [][CvNext]_vars

InitHkex ==
    ExIdle /\ PlIdle /\ DlIdle /\ BdIdle /\ YdIdle /\ GmIdle /\ SeIdle
    /\ CvIdle /\ HxInit /\ SaIdle /\ MnIdle /\ GvIdle /\ MtIdle /\ SmIdle
    /\ RyIdle /\ PcIdle

SpecHkex == InitHkex /\ [][HxNext]_vars

InitSearch ==
    ExIdle /\ PlIdle /\ DlIdle /\ BdIdle /\ YdIdle /\ GmIdle /\ SeIdle
    /\ CvIdle /\ HxIdle /\ SaInit /\ MnIdle /\ GvIdle /\ MtIdle /\ SmIdle
    /\ RyIdle /\ PcIdle

SpecSearch == InitSearch /\ [][SaNext]_vars

InitMain ==
    ExIdle /\ PlIdle /\ DlIdle /\ BdIdle /\ YdIdle /\ GmIdle /\ SeIdle
    /\ CvIdle /\ HxIdle /\ SaIdle /\ MnInit /\ GvIdle /\ MtIdle /\ SmIdle
    /\ RyIdle /\ PcIdle

SpecMain == InitMain /\ [][MnNext]_vars

InitValue ==
    ExIdle /\ PlIdle /\ DlIdle /\ BdIdle /\ YdIdle /\ GmIdle /\ SeIdle
    /\ CvIdle /\ HxIdle /\ SaIdle /\ MnIdle /\ GvInit /\ MtIdle /\ SmIdle
    /\ RyIdle /\ PcIdle

SpecValue == InitValue /\ [][GvNext]_vars

InitMetrics ==
    ExIdle /\ PlIdle /\ DlIdle /\ BdIdle /\ YdIdle /\ GmIdle /\ SeIdle
    /\ CvIdle /\ HxIdle /\ SaIdle /\ MnIdle /\ GvIdle /\ MtInit /\ SmIdle
    /\ RyIdle /\ PcIdle

SpecMetrics == InitMetrics /\ [][MtNext]_vars

InitSmart ==
    ExIdle /\ PlIdle /\ DlIdle /\ BdIdle /\ YdIdle /\ GmIdle /\ SeIdle
    /\ CvIdle /\ HxIdle /\ SaIdle /\ MnIdle /\ GvIdle /\ MtIdle /\ SmInit
    /\ RyIdle /\ PcIdle

SpecSmart == InitSmart /\ [][SmNext]_vars

InitRowOfYear ==
    ExIdle /\ PlIdle /\ DlIdle /\ BdIdle /\ YdIdle /\ GmIdle /\ SeIdle
    /\ CvIdle /\ HxIdle /\ SaIdle /\ MnIdle /\ GvIdle /\ MtIdle /\ SmIdle
    /\ RyInit /\ PcIdle

SpecRowOfYear == InitRowOfYear /\ [][RyNext]_vars

InitPerCapita ==
    ExIdle /\ PlIdle /\ DlIdle /\ BdIdle /\ YdIdle /\ GmIdle /\ SeIdle
    /\ CvIdle /\ HxIdle /\ SaIdle /\ MnIdle /\ GvIdle /\ MtIdle /\ SmIdle
    /\ RyIdle /\ PcInit

SpecPerCapita == InitPerCapita /\ [][PcNext]_vars

(***************************************************************************)
(* Claims                                                                  *)
(***************************************************************************)

\* C1: batch_extract_employee_count_smart(use_smart=True) raises nothing and
\* returns a dictionary with exactly one entry per *.pdf file of pdf_dir,
\* the file name mapped to the extracted count when the extraction of that
\* file succeeded and to None when it did not.
C1_BatchExtractResult ==
    /\ exPc # "raised"
    /\ exPc = "returned" =>
         /\ DOMAIN result_dict = pdf_dir
         /\ \A f \in pdf_dir :
              result_dict[f] =
                 IF pdf_content[f].kind = "count"
                 THEN pdf_content[f].count ELSE None


\* C2: in the automation pipeline step 4 (the extraction of the employee
\* counts from the PDFs of the company directory) is executed in every run
\* that has completed steps 1 and 2, with the download box unchecked (step 3
\* skipped) and with it checked (whatever the yearly downloads did).
C2_Step4Executed ==
    (plPc \in {"done", "failed"} /\ step2) => step4 = "extracted"

\* The place of a candidate URL in the order adjunctUrl URL, http
\* announcement-ID URL, https announcement-ID URL, static finalpage URL.
UrlRank(u) ==
    CASE u = "adjunct" -> 1 [] u = "http_id" -> 2 [] u = "https_id" -> 3
      [] u = "finalpage" -> 4

\* A tried URL left a completely saved file larger than 50000 bytes.
SavedBig(t) == t.met.kind = "saved" /\ t.met.size > 50000

\* C3: download_from_cninfo tries the candidate URLs of the first
\* announcement in the order adjunctUrl, http ID, https ID, finalpage; it
\* returns the file path at the first URL whose saved file is larger than
\* 50000 bytes, trying no later URL, and None when there is no announcement
\* or no URL yields such a file; a returned path names a file larger than
\* 50000 bytes.
C3_DownloadFromCninfo ==
    /\ \A i, j \in DOMAIN dlTried :
         i < j => UrlRank(dlTried[i].url) < UrlRank(dlTried[j].url)
    /\ \A i \in DOMAIN dlTried : SavedBig(dlTried[i]) => i = Len(dlTried)
    /\ dlPc = "returned" =>
         /\ dlResult \in {"None", "filepath"}
         /\ dlResult = "filepath" <=>
              (dlTried # << >> /\ SavedBig(dlTried[Len(dlTried)]))
         /\ dlResult = "filepath" =>
              (dlFile.present /\ dlFile.size > 50000)
         /\ (dlResult = "None" /\ announcement.found /\ announcement.id
             /\ dlTried # << >>) =>
              \* every candidate was tried, the first being the adjunctUrl
              \* URL when the announcement has one
              /\ Len(dlTried) = 2 + (IF announcement.adjunctUrl THEN 1 ELSE 0)
                     + (IF announcement.announcementTime THEN 1 ELSE 0)
         /\ ~announcement.found => (dlResult = "None" /\ dlTried = << >>)
    /\ (dlTried # << >> /\ announcement.adjunctUrl) =>
         dlTried[1].url = "adjunct"

\* The call returned the path at the https ID URL after the adjunctUrl URL
\* gave an undersized file and the http ID URL failed.
C3_Witness ==
    /\ dlPc = "returned"
    /\ dlResult = "filepath"
    /\ Len(dlTried) = 3
    /\ dlTried[1].url = "adjunct" /\ dlTried[1].met.kind = "saved"
    /\ dlTried[3].url = "https_id"
    /\ announcement.announcementTime

\* C4: batch_download_reports returns a dictionary whose keys are exactly
\* the years start_year..end_year; the value of a year is the path of a file
\* that exists when the download of that year succeeded and None otherwise,
\* also when the download raised, and the years after it are still tried.
C4_BatchDownloadResults ==
    /\ bdPc = "raised" => bdMet = << >>
    /\ bdPc = "returned" =>
         /\ DOMAIN results = start_year..end_year
         /\ DOMAIN bdMet = start_year..end_year
         /\ \A y \in start_year..end_year :
              /\ bdMet[y] = "filepath" =>
                    (results[y] = y /\ y \in bdFileExists)
              /\ bdMet[y] # "filepath" => results[y] = None

\* A returned dictionary in which a year whose download raised is followed
\* by a year that was downloaded.
C4_Witness ==
    /\ bdPc = "returned"
    /\ \E y \in start_year..(end_year - 1) :
         /\ bdMet[y] = "raises" /\ results[y] = None
         /\ bdMet[y + 1] = "filepath" /\ results[y + 1] = y + 1

\* The rows of the table whose report date is the 12-31 period end of the
\* year.
IsYearEnd(date, year) == date.y = year /\ date.m = 12 /\ date.d = 31

\* C5: extract_year_data(df, year) returns a row whose report date is the
\* 12-31 period end of the year, the last such row in df order; it returns
\* None exactly when df is None or empty, has no report-date column, or has
\* no such row; it never returns a row of another year or period end.
C5_ExtractYearData ==
    ydPc = "returned" =>
      LET wanted == {i \in DOMAIN df.rows : IsYearEnd(df.rows[i], ydYear)} IN
      /\ ydRow = 0 <=>
           (df.none \/ df.rows = << >> \/ ~df.date_col \/ wanted = {})
      /\ ydRow # 0 =>
           /\ ydRow \in wanted
           /\ \A i \in wanted : i <= ydRow

\* The call returned the second of two 12-31 rows of 2012 from a table that
\* also holds the 12-31 row of 2013.
C5_Witness ==
    /\ ydPc = "returned"
    /\ ydYear = 2012
    /\ Len(df.rows) = 3
    /\ IsYearEnd(df.rows[1], 2012)
    /\ IsYearEnd(df.rows[2], 2012)
    /\ IsYearEnd(df.rows[3], 2013)
    /\ ydRow = 2

\* The value the profit statement supplies for a column and a year, in
\* 0.01 亿: defined when the statement has the year's row and the value is
\* not "-".
Supplied(column_name, year) ==
    /\ year \in DOMAIN gmProfit.rows
    /\ ~GetValueFromRow(gmProfit.rows[year], column_name).dash

SuppliedValue(column_name, year) ==
    GetValueFromRow(gmProfit.rows[year], column_name).v

GmColumnOf(k) == IF k = 1 THEN "OPERATE_INCOME" ELSE "PARENT_NETPROFIT"

GmReturnedTable == gmPc = "returned" /\ gmProfit.hasProfit

\* C6: the compound growth cells 最近5年 and 最近3年 of revenue and of parent
\* net profit are computed from the values of end_year and end_year - 5
\* (end_year - 3): a cell is filled if and only if the profit statement
\* supplies the value for both years and both are > 0, whatever start_year
\* is; otherwise it is "-".
C6_CagrWhateverStart ==
    GmReturnedTable =>
      \A k \in 1..2 : \A n \in {Cagr5Years, Cagr3Years} :
        LET cell == result_df.cells[IF n = Cagr5Years THEN ColCagr5
                                    ELSE ColCagr3][k]
            col == GmColumnOf(k)
        IN  /\ cell.filled <=>
                 /\ Supplied(col, gmEnd) /\ Supplied(col, gmEnd - n)
                 /\ SuppliedValue(col, gmEnd) > 0
                 /\ SuppliedValue(col, gmEnd - n) > 0
            /\ cell.filled =>
                 /\ cell.n = n
                 /\ cell.first = SuppliedValue(col, gmEnd - n)
                 /\ cell.last = SuppliedValue(col, gmEnd)


\* C7: the column of start_year is "-" in both rows; for every later year y
\* the growth cell is filled if and only if the statement supplies the value
\* for y and y - 1 and the value of y - 1 is not 0, and is then
\* (value_y - value_{y-1}) / value_{y-1} x 100 (to two decimals); the
\* columns are 科目, start_year..end_year, 最近5年, 最近3年 in this order.
C7_YearlyGrowth ==
    GmReturnedTable =>
      /\ result_df.columns =
            <<ColSubject>> \o [i \in 1..(gmEnd - gmStart + 1) |-> gmStart + i - 1]
               \o <<ColCagr5, ColCagr3>>
      /\ \A k \in 1..2 :
           LET col == GmColumnOf(k) IN
           /\ ~result_df.cells[gmStart][k].filled
           /\ \A y \in (gmStart + 1)..gmEnd :
                LET cell == result_df.cells[y][k] IN
                /\ cell.filled <=>
                     /\ Supplied(col, y) /\ Supplied(col, y - 1)
                     /\ SuppliedValue(col, y - 1) # 0
                /\ cell.filled =>
                     LET prev == SuppliedValue(col, y - 1)
                         curr == SuppliedValue(col, y)
                     IN  2 * Abs(cell.v * prev - (curr - prev) * 10000)
                            <= Abs(prev)

\* A returned table whose revenue growth of the last year is -300.00 % (from
\* -1 亿 to 2 亿) while the year before, following a revenue of 0, shows "-".
C7_Witness ==
    /\ GmReturnedTable
    /\ gmStart <= gmEnd - 2
    /\ SuppliedValue("OPERATE_INCOME", gmEnd - 2) = 0
    /\ Supplied("OPERATE_INCOME", gmEnd - 2)
    /\ ~result_df.cells[gmEnd - 1][1].filled
    /\ result_df.cells[gmEnd][1].filled
    /\ result_df.cells[gmEnd][1].v = -30000

\* The file a call with a given timestamp is to write: the name is made of
\* company_name, start_year, end_year and timestamp, in output_dir.
SeFileOf(c) ==
    [dir |-> c.target.output_dir, company_name |-> c.target.company_name,
     start_year |-> c.target.start_year, end_year |-> c.target.end_year,
     timestamp |-> c.timestamp]

SeOthersKept(f) ==
    /\ \A g \in DOMAIN seBefore : g # f =>
          g \in DOMAIN seFiles /\ seFiles[g] = seBefore[g]
    /\ DOMAIN seFiles \subseteq DOMAIN seBefore \cup {f}
    /\ f \in DOMAIN seBefore =>
          /\ f \in DOMAIN seFiles
          /\ \A n \in DOMAIN seBefore[f] : n # seCall.sheet_name =>
                n \in DOMAIN seFiles[f] /\ seFiles[f][n] = seBefore[f][n]

HkAmountsOf(item, date) ==
    {df_long.rows[i].amount :
        i \in {j \in DOMAIN df_long.rows :
                  /\ df_long.rows[j].item = item
                  /\ df_long.rows[j].date = date
                  /\ df_long.rows[j].amount # None}}

HkCell(date, column) ==
    {c.amount : c \in {x \in df_wide.cells :
                          x.date = date /\ x.column = column}}

\* C9: when a primary item and its alternative are mapped to one field
\* (除税后溢利 and 持续经营业务税后利润 to NET_PROFIT), the column of a period
\* holds the primary item's amount whenever the primary item has one, and
\* the alternative's amount only when the primary item has none, whatever
\* the order of the rows.
C9_PrimaryBeforeAlternative ==
    (cvPc = "returned" /\ ~df_wide.none) =>
      \A d \in HkDates :
        LET primary == HkAmountsOf("profit_after_tax", d)
            alternative == HkAmountsOf("continuing_profit_after_tax", d)
        IN  /\ primary # {} =>
                 /\ HkCell(d, "NET_PROFIT") # {}
                 /\ HkCell(d, "NET_PROFIT") \subseteq primary
            /\ (primary = {} /\ alternative # {}) =>
                 /\ HkCell(d, "NET_PROFIT") # {}
                 /\ HkCell(d, "NET_PROFIT") \subseteq alternative

\* The fiscal year a link stands for: the year its title names or, for a
\* title without a year, the year before the one it was published in.
HxFiscalYear(r) ==
    IF r.title.year # None THEN r.title.year
    ELSE IF r.path_year # None THEN r.path_year - 1
    ELSE None

\* C10: search_hkex_annual_reports labels every annual report with the
\* fiscal year it covers (title "2023 年報" under /2024/ gets 2023), the
\* year parse_html_for_annual_reports gives the same title and link.
C10_FiscalYearLabel ==
    (hxPc = "run" /\ hxSearched = "ok") =>
      \A i \in DOMAIN hxSearch :
        /\ hxSearch[i].year = HxFiscalYear(hxSearch[i])
        /\ hxParsed = "ok" =>
             \A j \in DOMAIN hxParse :
                (hxParse[j].title = hxSearch[i].title
                   /\ hxParse[j].path_year = hxSearch[i].path_year)
                  => hxParse[j].year = hxSearch[i].year

\* A match, as the claim words it: secCode empty or the symbol, a title with
\* 年度报告 or 年报, with none of 摘要, 英文, 更正, 补充, 修订, and with the year.
SaIsMatch(ann) ==
    /\ ann.secCode \in {"", SaSymbol}
    /\ ann.title \cap {"niandubaogao", "nianbao"} # {}
    /\ ann.title \cap {"zhaiyao", "yingwen", "gengzheng", "buchong",
                       "xiuding"} = {}
    /\ "year" \in ann.title

\* The titles of the matches of an answer, in its order.
SaMatchTitles(response) ==
    LET m == SelectSeq(response.ann_list, SaIsMatch)
    IN  [i \in 1..Len(m) |-> m[i].title]

\* C11: the strategies are queried in order; the function returns the
\* matches of the first strategy that yields at least one, without querying
\* a later one, and [] when no strategy yields a match.
C11_FirstStrategyWithMatch ==
    saPc \in {"loop", "returned"} =>
      /\ saQueried = [i \in 1..Len(saQueried) |-> i]
      /\ Len(saQueried) <= Len(SearchStrategies)
      /\ \A i \in 1..(Len(saResponses) - 1) :
            SaMatchTitles(saResponses[i]) = << >>
      /\ saPc = "loop" =>
            \A i \in DOMAIN saResponses :
               SaMatchTitles(saResponses[i]) = << >>
      /\ saPc = "returned" =>
            LET answer == saResponses[Len(saResponses)] IN
            /\ [i \in DOMAIN saResult |-> saResult[i].title]
                  = SaMatchTitles(answer)
            /\ \A i \in DOMAIN saResult : saResult[i].secCode = SaSymbol
            /\ SaMatchTitles(answer) = << >> =>
                  Len(saQueried) = Len(SearchStrategies)

\* The first strategy was answered with a list without a match, the second
\* with two announcements of which one matches: the function returns it.
C11_Witness ==
    /\ saPc = "returned"
    /\ Len(saQueried) = 2
    /\ saResponses[1].kind = "dict" /\ Len(saResponses[1].ann_list) = 2
    /\ Len(saResponses[2].ann_list) = 2
    /\ Len(saResult) = 1

MnDownloaded == {y \in DOMAIN mnResults : mnResults[y] # None}

\* C12: after batch_download_reports has returned, main ends with status 1
\* when no year was downloaded, 2 when some but not all were, 0 when all
\* were; a keyboard interrupt ends with 130, any other exception with 1.
C12_ExitStatus ==
    mnPc = "exited" =>
      /\ mnExc = "SystemExit" =>
            /\ MnDownloaded = {} => mnStatus = 1
            /\ (MnDownloaded # {} /\ MnDownloaded # DOMAIN mnResults)
                  => mnStatus = 2
            /\ (MnDownloaded # {} /\ MnDownloaded = DOMAIN mnResults)
                  => mnStatus = 0
      /\ mnExc = "KeyboardInterrupt" => mnStatus = 130
      /\ mnExc = "Exception" => mnStatus = 1

\* Two of three years were downloaded and the process ended with status 2.
C12_Witness ==
    /\ mnPc = "exited"
    /\ mnExc = "SystemExit"
    /\ Cardinality(DOMAIN mnResults) = 3
    /\ Cardinality(MnDownloaded) = 2
    /\ mnStatus = 2

\* C13: get_value_from_row returns the default exactly when the row is
\* None, the column is absent, or the value is NaN or cannot be converted to
\* a number; otherwise it returns the value divided by 100,000,000, rounded
\* to two decimals (a nearest hundredth of 亿).
C13_GetValueFromRow ==
    gvPc = "returned" =>
      LET cell == gvRow[gvColumn] IN
      /\ gvResult.dash <=>
           \/ ~gvRow.present
           \/ cell.kind = "absent"
           \/ cell.kind \in {"nan", "none", "text"}
      /\ ~gvResult.dash =>
           2 * Abs(gvResult.v * 1000000 - cell.v) <= 1000000

\* 1.23456789 亿 of revenue is returned as 1.23.
C13_Witness ==
    /\ gvPc = "returned"
    /\ gvRow.present
    /\ gvColumn = "OPERATE_INCOME"
    /\ gvRow.OPERATE_INCOME = Num(123456789)
    /\ gvResult = Value(123)

\* C14: when the extraction of step 4 raises, the pipeline reports the
\* failure and still carries out step 5 (the Excel is generated, with no
\* employee CSV); the run does not end in the outer 执行失败 handler.
C14_Step5AfterStep4Failure ==
    (step4 = "raised" /\ plPc \in {"done", "failed"}) =>
      /\ plPc = "done"
      /\ step5 = "done"

\* C15: when download_from_cninfo returns None, the file
\* save_dir/{symbol}_{year}年年度报告.pdf is as it was before the call: no
\* partly written or undersized file is left, and a file that was there is
\* neither overwritten nor deleted.
C15_FileUntouchedOnNone ==
    (dlPc = "returned" /\ dlResult = "None") => dlFile = dlFileBefore

\* The indices of the indicators in a column of the revenue table and of the
\* asset turnover table.
MtReturned(call) == mtPc = "returned" /\ mtCall = call /\ ~mtTable.none

\* A year that calculate_revenue_metrics skips: a row or a base figure is
\* missing.
RevenueSkipped(y) ==
    \/ ~mtData[y].profit.present
    \/ ~mtData[y].cash_flow.present
    \/ GetValueFromRow(mtData[y].profit, "OPERATE_INCOME").dash
    \/ GetValueFromRow(mtData[y].profit, "PARENT_NETPROFIT").dash

\* A year that calculate_asset_turnover_metrics skips.
TurnoverSkipped(y) ==
    \/ ~mtData[y].balance.present
    \/ ~mtData[y].profit.present
    \/ GetValueFromRow(mtData[y].profit, "OPERATE_INCOME").dash
    \/ GetValueFromRow(mtData[y].balance, "TOTAL_ASSETS").dash
    \/ GetValueFromRow(mtData[y].balance, "TOTAL_PARENT_EQUITY").dash

\* C16: a year that calculate_revenue_metrics or
\* calculate_asset_turnover_metrics skips because a base figure is missing
\* shows "-" for every indicator of that year.
C16_SkippedYearAllDash ==
    /\ MtReturned("revenue") =>
         \A y \in DOMAIN mtData :
            RevenueSkipped(y) =>
               mtTable.columns[y] = AllDash(RevenueIndicators)
    /\ MtReturned("turnover") =>
         \A y \in DOMAIN mtData :
            TurnoverSkipped(y) =>
               mtTable.columns[y] = AllDash(TurnoverIndicators)

\* A year of the range that calculate_asset_turnover_metrics processed to
\* the end.
TurnoverProcessed(y) == y \in DOMAIN mtData /\ ~TurnoverSkipped(y)

\* The rows of the averages and of the turnover days in a column of the
\* asset turnover table.
TurnoverAverageRows == {2, 3, 4, 6}
TurnoverDaysRows == 7..12

\* The year-end values of year y whose means the table shows in the rows of
\* the averages.
YearEndValue(i, y) ==
    IF i = 2 THEN GetValueFromRow(mtData[y].balance, "TOTAL_ASSETS").v
    ELSE IF i = 3 THEN DashAsZero(mtData[y].balance, "TOTAL_CURRENT_ASSETS")
    ELSE IF i = 4 THEN DashAsZero(mtData[y].balance, "INVENTORY")
    ELSE GetValueFromRow(mtData[y].balance, "TOTAL_PARENT_EQUITY").v

\* C17: in calculate_asset_turnover_metrics the averages of year y are
\* computed if and only if y and y - 1 were both processed to the end, and
\* are then the mean of the year-end values of y - 1 and y; otherwise (for
\* start_year and after a skipped year) every average and every turnover-days
\* indicator of y is "-".
C17_AveragesNeedBothYears ==
    MtReturned("turnover") =>
      \A y \in DOMAIN mtData :
         LET both == TurnoverProcessed(y) /\ TurnoverProcessed(y - 1)
             column == mtTable.columns[y]
         IN  /\ \A i \in TurnoverAverageRows :
                  /\ ~column[i].dash <=> both
                  /\ both => column[i].v * 2
                               = YearEndValue(i, y - 1) + YearEndValue(i, y)
             /\ ~both => \A i \in TurnoverDaysRows : column[i].dash

\* A year that calculate_roi_metrics skips.
RoiSkipped(y) ==
    \/ ~mtData[y].balance.present
    \/ ~mtData[y].profit.present
    \/ GetValueFromRow(mtData[y].profit, "PARENT_NETPROFIT").dash
    \/ GetValueFromRow(mtData[y].profit, "OPERATE_INCOME").dash
    \/ GetValueFromRow(mtData[y].balance, "TOTAL_ASSETS").dash
    \/ GetValueFromRow(mtData[y].balance, "TOTAL_PARENT_EQUITY").dash

\* The interest expense as stated: FE_INTEREST_EXPENSE when it has a value,
\* otherwise the absolute value of FINANCE_EXPENSE, and 0 only when that is
\* missing as well.
StatedInterestExpense(profit_row) ==
    LET interest == GetValueFromRow(profit_row, "FE_INTEREST_EXPENSE")
        finance == GetValueFromRow(profit_row, "FINANCE_EXPENSE")
    IN  IF ~interest.dash THEN interest.v
        ELSE IF ~finance.dash THEN Abs(finance.v)
        ELSE 0

\* C18: the interest expense that calculate_roi_metrics adds to the operating
\* profit to get EBIT (the numerator of ROIC) is FE_INTEREST_EXPENSE when it
\* has a value, abs(FINANCE_EXPENSE) when it is missing, and 0 only when
\* FINANCE_EXPENSE is missing as well.
C18_InterestExpenseFallback ==
    MtReturned("roi") =>
      \A y \in DOMAIN mtData :
         ~RoiSkipped(y) =>
            LET profit_row == mtData[y].profit
                revenue == GetValueFromRow(profit_row, "OPERATE_INCOME").v
                total_assets ==
                    GetValueFromRow(mtData[y].balance, "TOTAL_ASSETS").v
                invested_capital ==
                    InvestedCapital(mtData[y].balance, total_assets)
                ebit == RoiOperateProfit(profit_row, revenue)
                        + StatedInterestExpense(profit_row)
            IN  mtTable.columns[y][3] =
                   IF invested_capital # 0
                   THEN Value(Pct(ebit, invested_capital)) ELSE Dash

\* A head count as stated: in 500..200000, not a year of 1990..2030 and not
\* a placeholder.
StatedCount(count) ==
    /\ count \in 500..200000
    /\ count \notin 1990..2030
    /\ count \notin {0, 9999, 99999, 999999, 9999999}

\* C19: every employee count the smart algorithm returns, and every count of
\* a candidate it merges, lies in 500..200000, is no year of 1990..2030 and
\* none of 0, 9999, 99999, 999999, 9999999.
C19_ReturnedCountReasonable ==
    /\ \A i \in 1..Len(smResults) : StatedCount(smResults[i].count)
    /\ smFinal # NoEmployeeData => StatedCount(smFinal.count)
    /\ (smPc = "returned" /\ smCount # None) => StatedCount(smCount)

\* A count was returned from two candidates or more after a year and a
\* number above the range had been read and passed over.
C19_Witness ==
    /\ smPc = "returned"
    /\ smCount # None
    /\ Len(smResults) >= 2
    /\ {2024, 250000} \subseteq smRejected

\* C20: the confidence of every EmployeeData, of each candidate and of the
\* merged result, lies in [0, 1].
C20_ConfidenceWithinUnit ==
    /\ \A i \in 1..Len(smResults) : smResults[i].confidence \in 0..1000
    /\ smFinal.confidence \in 0..1000

\* C21: for the same statement table and the same year, extract_year_data,
\* extract_year_data_hk and format_statement_data take their figures from
\* the same row, also when the table holds more than one row with the 12-31
\* report date of that year, and one of them finds a row exactly when the
\* others do.
C21_SameRowOfYear ==
    ryPc = "returned" =>
       /\ ryRow.analysis = ryRow.hk
       /\ ryRow.analysis = ryRow.tool

\* The head counts the CSV holds for year y in its valid rows.
CsvCountsOf(y) ==
    {pcCsv.rows[i].count.v :
        i \in {j \in DOMAIN pcCsv.rows :
                  /\ CsvRowIsValid(pcCsv.rows[j])
                  /\ pcCsv.rows[j].year.v = y}}

\* The head count of year y as stated: with a CSV path the CSV's value for y
\* and none without a valid row; without a path the count of the API.
StatedHeadCounts(y) ==
    IF pcCsvGiven THEN CsvCountsOf(y)
    ELSE IF pcApi = None THEN {} ELSE {pcApi}

\* A year whose three statement rows were found.
PcRowsFound(y) ==
    /\ pcData[y].balance.present
    /\ pcData[y].profit.present
    /\ pcData[y].cash_flow.present

\* C22: in calculate_per_capita_metrics the head count of year y is, with
\* employee_csv_path given, the CSV's value for y, and "-" when the CSV has
\* no valid row for y (the API head count is never substituted); without a
\* path it is the one head count of the API for every year.  Each per-capita
\* indicator of a year is "-" whenever the head count is missing or not
\* greater than 0, and otherwise the revenue per head is computed from that
\* head count.
C22_HeadCountOfYear ==
    (pcPc = "returned" /\ ~pcTable.none) =>
       \A y \in PcYears :
          LET column == pcTable.columns[y]
              stated == StatedHeadCounts(y)
              revenue == GetValueFromRow(pcData[y].profit, "OPERATE_INCOME")
          IN  /\ PcRowsFound(y) =>
                    /\ column[1].dash <=> stated = {}
                    /\ ~column[1].dash => column[1].v \in stated
                    /\ Cardinality(stated) = 1 => stated = {column[1].v}
              /\ (column[1].dash \/ column[1].v <= 0) =>
                    \A i \in 2..PerCapitaIndicators : column[i].dash
              /\ (~column[1].dash /\ column[1].v > 0 /\ ~revenue.dash) =>
                    column[2] = Value(PerHead(revenue.v, column[1].v))

\* A table was returned for a CSV that has a valid row for the last year
\* and none for the year before, while the API had a head count; the last
\* year shows the CSV's count and its revenue per head.
C22_Witness ==
    /\ pcPc = "returned"
    /\ ~pcTable.none
    /\ pcCsvGiven
    /\ pcApi # None
    /\ CsvCountsOf(MaxOf(PcYears)) = {800}
    /\ CsvCountsOf(MinOf(PcYears)) = {}
    /\ PcRowsFound(MinOf(PcYears))
    /\ ~pcTable.columns[MaxOf(PcYears)][2].dash

====
